---- MODULE Spec2Model ----
(***************************************************************************)
(* A model of werkzeug's URL map (routing.py), response wrapper            *)
(* (wrappers.py), exceptions (exceptions.py) and utilities (utils.py).     *)
(* Operators keep the names of the code they model.                        *)
(***************************************************************************)
EXTENDS Integers, Sequences, FiniteSets, TLC

VARIABLES
    \* ---- routing.py: Map -------------------------------------------------
    _rules,              \* Map._rules: list of rules, in list order
    _rules_by_endpoint,  \* Map._rules_by_endpoint: endpoint -> list of rules
    _remap,              \* Map._remap: the dirty flag
    rule_map,            \* Rule.map of every rule: "none", "this" or "other"
    default_method,      \* MapAdapter.default_method of the bound adapter
    add_raised,          \* history: some Map.add call raised
    last,                \* the last routing call: its inputs and its outcome
    \* ---- wrappers.py: BaseResponse ---------------------------------------
    response,            \* self.response: the body object
    headers,             \* self.headers: list of (key, value)
    status_code,         \* self.status_code
    direct_passthrough,  \* self.direct_passthrough
    implicit_sequence_conversion,
    automatically_set_content_length,
    autocorrect_location_header,
    charset,             \* self.charset
    _on_close,           \* self._on_close: list of callbacks
    app_iter,            \* the iterable get_app_iter returned last
    emitted,             \* the items app_iter has yielded
    close_runs,          \* history: invocations of each close callable
    close_events,        \* history: number of close() / iterator closings
    app_iters,           \* history: number of get_app_iter calls
    orig_body,           \* history: the body the response was built with
    rlast,               \* the last response call: its inputs and its outcome
    \* ---- exceptions.py, utils.py, Map.bind: functions ---------------------
    call,                \* the call under study: the function and its inputs
    result               \* its outcome, once it has run

mapvars == <<_rules, _rules_by_endpoint, _remap, rule_map, default_method,
             add_raised, last>>

respvars == <<response, headers, status_code, direct_passthrough,
              implicit_sequence_conversion, automatically_set_content_length,
              autocorrect_location_header, charset, _on_close, app_iter,
              emitted, close_runs, close_events, app_iters, orig_body, rlast>>

fnvars == <<call, result>>

vars == <<mapvars, respvars, fnvars>>

(***************************************************************************)
(* Bounds of the model.                                                    *)
(***************************************************************************)
MaxRules == 4
MaxFactoryLen == 2
MaxCloseEvents == 2

\* A response is handed to the gateway at most this many times.
MaxAppIters == 1

\* The most positional arguments of a call under study.
MaxArgs == 3

\* The longest filename of those enumerated in full.
MaxFilenameLen == 4

\* The longest text of those escaped in full.
MaxTextLen == 4

(***************************************************************************)
(* Sequence helpers.                                                       *)
(***************************************************************************)
Range(s) == {s[i] : i \in 1..Len(s)}

Front(s) == SubSeq(s, 1, Len(s) - 1)

SeqsUpTo(S, n) == UNION {[1..k -> S] : k \in 0..n}

IsInjective(s) == \A i, j \in 1..Len(s) : s[i] = s[j] => i = j

(***************************************************************************)
(* Rule: the rules an application may hand to the map.  A rule carries its *)
(* endpoint, the methods it declares (any_method: it declares none and     *)
(* takes every method), its arguments and defaults, its two sort keys, the *)
(* paths it matches and the paths on which it asks for a slash redirect.   *)
(***************************************************************************)
NoValue == 0      \* None as a value of the values dict
GoodValue == 1    \* a value the rule's converter accepts
BadValue == 2     \* a value the rule's converter rejects (ValidationError)

RuleIds == 1..5

Endpoints == {"e1", "e2"}

Methods == {"GET", "POST", "PUT"}

Paths == {"/x", "/y", "/z", "/w"}

Rule(ep, any, ms, args, dflt, mk, bk, ps, sl, u) ==
    [endpoint |-> ep, any_method |-> any, methods |-> ms, arguments |-> args,
     defaults |-> dflt, match_key |-> mk, build_key |-> bk, paths |-> ps,
     slash |-> sl, url |-> u]

NoDefaults == [k \in {} |-> GoodValue]

Rules ==
    <<Rule("e1", FALSE, {"GET"},        {},    NoDefaults, 1, 2, {"/x"},       {},     "/x"),
      Rule("e1", FALSE, {"POST"},       {"a"}, [a |-> GoodValue], 0, 0, {"/x"}, {},    "/x/<a>"),
      Rule("e1", TRUE,  {},             {"a"}, NoDefaults, 2, 1, {"/y"},       {},     "/y/<a>"),
      Rule("e2", FALSE, {"GET", "PUT"}, {},    NoDefaults, 1, 2, {"/x", "/z"}, {"/w"}, "/z"),
      Rule("e2", FALSE, {"POST"},       {},    NoDefaults, 0, 1, {"/z"},       {},     "/z2")>>

match_compare_key(r) == Rules[r].match_key

build_compare_key(r) == Rules[r].build_key

(***************************************************************************)
(* list.sort(key=...): a stable sort, as Python's.                         *)
(***************************************************************************)
RECURSIVE InsertByKey(_, _, _)
InsertByKey(x, s, key) ==
    IF s = <<>> THEN <<x>>
    ELSE IF key[s[Len(s)]] <= key[x] THEN Append(s, x)
    ELSE Append(InsertByKey(x, Front(s), key), s[Len(s)])

RECURSIVE SortByKey(_, _)
SortByKey(s, key) ==
    IF s = <<>> THEN <<>>
    ELSE InsertByKey(s[Len(s)], SortByKey(Front(s), key), key)

MatchKeys == [r \in RuleIds |-> match_compare_key(r)]

BuildKeys == [r \in RuleIds |-> build_compare_key(r)]

IsSortedBy(s, key) == \A i, j \in 1..Len(s) : i < j => key[s[i]] <= key[s[j]]

(***************************************************************************)
(* Map.update: re-sort both tables when the map is dirty.                  *)
(***************************************************************************)
UpdatedRules ==
    IF _remap THEN SortByKey(_rules, MatchKeys) ELSE _rules

\* update() that sorts the full list only.
UpdatedByEndpointUnsorted == _rules_by_endpoint

UpdatedByEndpoint ==
    IF _remap
    THEN [e \in DOMAIN _rules_by_endpoint |->
              SortByKey(_rules_by_endpoint[e], BuildKeys)]
    ELSE _rules_by_endpoint

\* The effect of self.update() at the head of a reading operation.
DoUpdate ==
    /\ _rules' = UpdatedRules
    /\ _rules_by_endpoint' = UpdatedByEndpoint
    /\ _remap' = FALSE

NoCall == [op |-> "none"]

Update ==
    /\ DoUpdate
    /\ last' = [op |-> "update"]
    /\ UNCHANGED <<rule_map, default_method, add_raised, respvars, fnvars>>


(***************************************************************************)
(* Rule.bind: a rule may be bound to one map only; binding a bound rule    *)
(* raises.                                                                 *)
(***************************************************************************)
BindRaises(r, rm) == rm[r] /= "none"

\* The index of the first rule of the factory whose bind raises, or
\* Len(f) + 1 when every rule binds.
RECURSIVE FirstFailure(_, _, _)
FirstFailure(f, i, rm) ==
    IF i > Len(f) THEN i
    ELSE IF BindRaises(f[i], rm) THEN i
    ELSE FirstFailure(f, i + 1, [rm EXCEPT ![f[i]] = "this"])

\* self._rules_by_endpoint[rule.endpoint] = [rule]: the rule replaces the
\* list of its endpoint.
IndexAppendReplaces(idx, r) ==
    [e \in (DOMAIN idx) \cup {Rules[r].endpoint} |->
        IF e = Rules[r].endpoint THEN <<r>> ELSE idx[e]]

\* self._rules_by_endpoint.setdefault(rule.endpoint, []).append(rule)
IndexAppend(idx, r) ==
    LET ep == Rules[r].endpoint IN
    [e \in (DOMAIN idx) \cup {ep} |->
        IF e = ep
        THEN (IF e \in DOMAIN idx THEN Append(idx[e], r) ELSE <<r>>)
        ELSE idx[e]]

RECURSIVE IndexAppendAll(_, _)
IndexAppendAll(idx, rs) ==
    IF rs = <<>> THEN idx
    ELSE IndexAppendAll(IndexAppend(idx, Head(rs)), Tail(rs))

\* What the rule factories of the application yield: up to MaxFactoryLen
\* rules, each rule object at most once per factory.
Factories == {f \in SeqsUpTo(RuleIds, MaxFactoryLen) : Len(f) >= 1 /\ IsInjective(f)}

(***************************************************************************)
(* Map.add(rulefactory): bind and append every rule the factory yields,    *)
(* then mark the map dirty.  A bind that raises leaves the loop: the rules *)
(* added before it stay and the assignment to _remap is not reached.       *)
(***************************************************************************)
Add(f) ==
    LET k == FirstFailure(f, 1, rule_map)
        added == SubSeq(f, 1, k - 1)
        raised == k <= Len(f)
    IN  /\ Len(_rules) + Len(f) <= MaxRules
        /\ _rules' = _rules \o added
        /\ _rules_by_endpoint' = IndexAppendAll(_rules_by_endpoint, added)
        /\ rule_map' = [r \in RuleIds |->
                            IF r \in Range(added) THEN "this" ELSE rule_map[r]]
        /\ _remap' = IF raised THEN _remap ELSE TRUE
        /\ add_raised' = (add_raised \/ raised)
        /\ last' = [op |-> "add", raised |-> raised, added |-> added]
        /\ UNCHANGED <<default_method, respvars, fnvars>>

(***************************************************************************)
(* Map.iter_rules(endpoint=None)                                           *)
(***************************************************************************)
IterRules(endpoint) ==
    /\ DoUpdate
    /\ last' = [op |-> "iter_rules", endpoint |-> endpoint,
                result |-> IF endpoint = "None" THEN UpdatedRules
                           ELSE IF endpoint \in DOMAIN UpdatedByEndpoint
                                THEN UpdatedByEndpoint[endpoint]
                                ELSE <<>>,
                raised |-> (endpoint /= "None"
                            /\ endpoint \notin DOMAIN UpdatedByEndpoint)]
    /\ UNCHANGED <<rule_map, default_method, add_raised, respvars, fnvars>>

(***************************************************************************)
(* Map.is_endpoint_expecting(endpoint, *arguments)                         *)
(***************************************************************************)
ArgNames == {"a"}

IsEndpointExpecting(endpoint, arguments) ==
    /\ DoUpdate
    /\ last' = [op |-> "is_endpoint_expecting", endpoint |-> endpoint,
                seen |-> IF endpoint \in DOMAIN UpdatedByEndpoint
                         THEN UpdatedByEndpoint[endpoint] ELSE <<>>,
                raised |-> endpoint \notin DOMAIN UpdatedByEndpoint,
                result |-> /\ endpoint \in DOMAIN UpdatedByEndpoint
                           /\ \E i \in 1..Len(UpdatedByEndpoint[endpoint]) :
                                arguments \subseteq
                                  Rules[UpdatedByEndpoint[endpoint][i]].arguments]
    /\ UNCHANGED <<rule_map, default_method, add_raised, respvars, fnvars>>

(***************************************************************************)
(* The values dict of a build call: a function from some argument names to *)
(* values; NoValue stands for an entry whose value is None.                *)
(***************************************************************************)
ValueDicts == UNION {[D -> {NoValue, GoodValue, BadValue}] : D \in SUBSET ArgNames}

EmptyDict == [k \in {} |-> GoodValue]

\* dict((k, v) for k, v in valueiter if v is not None), and {} for a falsy
\* values argument
DropNone(values) ==
    IF DOMAIN values = {} THEN EmptyDict
    ELSE [k \in {x \in DOMAIN values : values[x] /= NoValue} |-> values[k]]

(***************************************************************************)
(* Rule.suitable_for(values, method) and Rule.build(values).               *)
(***************************************************************************)
suitable_for(r, values, method) ==
    /\ ~(method /= "None" /\ ~Rules[r].any_method /\ method \notin Rules[r].methods)
    /\ \A k \in Rules[r].arguments :
          k \in DOMAIN Rules[r].defaults \/ k \in DOMAIN values
    /\ \A k \in DOMAIN Rules[r].defaults :
          k \in DOMAIN values => values[k] = Rules[r].defaults[k]

NoneResult == [kind |-> "None"]

\* The converter of an argument rejects BadValue: build returns None.
RuleBuild(r, values, append_unknown) ==
    IF \E k \in Rules[r].arguments \cap DOMAIN values : values[k] = BadValue
    THEN NoneResult
    ELSE [kind |-> "url", rule |-> r, path |-> Rules[r].url,
          args |-> [k \in Rules[r].arguments \cap DOMAIN values |-> values[k]],
          query |-> IF append_unknown
                    THEN [k \in DOMAIN values \ Rules[r].arguments |-> values[k]]
                    ELSE EmptyDict]

(***************************************************************************)
(* MapAdapter._partial_build                                               *)
(***************************************************************************)
\* for rule in self.map._rules_by_endpoint.get(endpoint, ()): the first
\* suitable rule whose build gives a result, from position i on.
RECURSIVE ScanRules(_, _, _, _, _, _)
ScanRules(idx, endpoint, values, method, append_unknown, i) ==
    LET rules == IF endpoint \in DOMAIN idx THEN idx[endpoint] ELSE <<>> IN
    IF i > Len(rules) THEN NoneResult
    ELSE IF /\ suitable_for(rules[i], values, method)
            /\ RuleBuild(rules[i], values, append_unknown) /= NoneResult
         THEN RuleBuild(rules[i], values, append_unknown)
         ELSE ScanRules(idx, endpoint, values, method, append_unknown, i + 1)

RECURSIVE _partial_build(_, _, _, _, _)
_partial_build(idx, endpoint, values, method, append_unknown) ==
    LET rv == IF method = "None"
              THEN _partial_build(idx, endpoint, values, default_method,
                                  append_unknown)
              ELSE NoneResult
    IN  IF method = "None" /\ rv /= NoneResult THEN rv
        ELSE ScanRules(idx, endpoint, values, method, append_unknown, 1)

(***************************************************************************)
(* MapAdapter.build(endpoint, values, method, append_unknown)              *)
(***************************************************************************)
BuildOutcome(idx, endpoint, values, method, append_unknown) ==
    LET rv == _partial_build(idx, endpoint, DropNone(values), method,
                             append_unknown)
    IN  IF rv = NoneResult THEN [kind |-> "BuildError"] ELSE rv

(***************************************************************************)
(* MapAdapter.match(path_info, method): the rules are tried in list order  *)
(* after an update.  A rule asking for a slash redirect on the path raises *)
(* a redirect; a rule matching the path but not the method adds its        *)
(* methods to the allowed ones; the first rule matching both wins.  With   *)
(* no winner the call fails with method-not-allowed when some rule         *)
(* matched the path, and with not-found otherwise.                         *)
(***************************************************************************)
RECURSIVE MatchFrom(_, _, _, _, _)
MatchFrom(rules, path, method, i, have_match_for) ==
    IF i > Len(rules)
    THEN IF have_match_for /= {}
         THEN [kind |-> "MethodNotAllowed", valid_methods |-> have_match_for]
         ELSE [kind |-> "NotFound"]
    ELSE LET r == Rules[rules[i]] IN
         IF path \in r.slash THEN [kind |-> "RequestRedirect"]
         ELSE IF path \notin r.paths
              THEN MatchFrom(rules, path, method, i + 1, have_match_for)
         ELSE IF ~r.any_method /\ method \notin r.methods
              THEN MatchFrom(rules, path, method, i + 1,
                             have_match_for \cup r.methods)
         ELSE [kind |-> "match", rule |-> rules[i]]

Match(rules, path, method) == MatchFrom(rules, path, method, 1, {})

(***************************************************************************)
(* MapAdapter.allowed_methods(path_info)                                   *)
(***************************************************************************)
SentinelMethod == "--"

\* allowed_methods whose first except clause catches every HTTPException.
AllowedMethodsSwallowsAll(m) == {}

AllowedMethodsResult(m) ==
    IF m.kind = "MethodNotAllowed" THEN m.valid_methods ELSE {}

AllowedMethods(path) ==
    /\ DoUpdate
    /\ last' = [op |-> "allowed_methods", path |-> path,
                outcome |-> Match(UpdatedRules, path, SentinelMethod),
                result |-> AllowedMethodsResult(
                               Match(UpdatedRules, path, SentinelMethod))]
    /\ UNCHANGED <<rule_map, default_method, add_raised, respvars, fnvars>>

(***************************************************************************)
(* MapAdapter.test(path_info, method)                                      *)
(***************************************************************************)
\* test with the except clause for HTTPException before the redirect's.
TestResultRedirectFails(m) == m.kind = "match"

TestResult(m) ==
    IF m.kind = "RequestRedirect" THEN TRUE
    ELSE IF m.kind \in {"NotFound", "MethodNotAllowed"} THEN FALSE
    ELSE TRUE

\* match(path_info, method): no method given is the adapter's default one
MatchMethod(method) == IF method = "None" THEN default_method ELSE method

Test(path, method) ==
    /\ DoUpdate
    /\ last' = [op |-> "test", path |-> path, method |-> method,
                outcome |-> Match(UpdatedRules, path, MatchMethod(method)),
                result |-> TestResult(
                               Match(UpdatedRules, path, MatchMethod(method)))]
    /\ UNCHANGED <<rule_map, default_method, add_raised, respvars, fnvars>>

(***************************************************************************)
(* Map.bind and MapAdapter.__init__.  A text is the list of its            *)
(* characters.  "<dc>" and "<fc>" are U-umlaut and u-umlaut.               *)
(***************************************************************************)
\* None, where a text is expected
None == <<"None">>

\* str.lower of one character
LowerChar(c) ==
    CASE c = "E" -> "e"
      [] c = "X" -> "x"
      [] c = "B" -> "b"
      [] c = "<dc>" -> "<fc>"
      [] OTHER -> c

\* str.lower
StrLower(s) == [i \in 1..Len(s) |-> LowerChar(s[i])]

NonAscii == {"<dc>", "<fc>"}

\* _encode_idna: an ASCII name is kept, a label that is not is punycoded
_encode_idna(s) ==
    IF \A i \in 1..Len(s) : s[i] \notin NonAscii THEN s
    ELSE IF s = <<"b", "<fc>", ".", "e", "x">>
    THEN <<"x", "n", "-", "-", "b", "-", "k", "v", "a", ".", "e", "x">>
    ELSE <<"x", "n", "-", "-", "?">>

\* to_unicode of a text or None
to_unicode(x) == x

\* MapAdapter.__init__ with the script name as it was given.
MapAdapterScriptNameKept(server_name, script_name, subdomain, url_scheme) ==
    [kind |-> "MapAdapter", server_name |-> to_unicode(server_name),
     script_name |-> to_unicode(script_name),
     subdomain |-> to_unicode(subdomain), url_scheme |-> to_unicode(url_scheme)]

\* MapAdapter.__init__
MapAdapter(server_name, script_name, subdomain, url_scheme) ==
    [kind |-> "MapAdapter", server_name |-> to_unicode(server_name),
     script_name |-> IF script_name /= <<>>
                        /\ script_name[Len(script_name)] = "/"
                     THEN to_unicode(script_name)
                     ELSE Append(to_unicode(script_name), "/"),
     subdomain |-> to_unicode(subdomain), url_scheme |-> to_unicode(url_scheme)]

\* Map.bind(server_name, script_name, subdomain) of a map with
\* host_matching and default_subdomain; url_scheme is left at 'http'
Bind(host_matching, default_subdomain, server_name, script_name, subdomain) ==
    IF host_matching /\ subdomain /= None
    THEN [kind |-> "RuntimeError"]
    ELSE MapAdapter(_encode_idna(StrLower(server_name)),
                    IF script_name = None THEN <<"/">> ELSE script_name,
                    IF ~host_matching /\ subdomain = None
                    THEN default_subdomain ELSE subdomain,
                    <<"h", "t", "t", "p">>)

BindCall ==
    /\ call.fn = "Map.bind"
    /\ result = NoCall
    /\ result' = [op |-> "bind",
                  rv |-> Bind(call.host_matching, call.default_subdomain,
                              call.server_name, call.script_name,
                              call.subdomain)]
    /\ UNCHANGED <<call, mapvars, respvars>>

ServerNames ==
    {<<"e", "x">>, <<"E", "x", ".", "X">>, <<"B", "<dc>", ".", "e", "x">>}

ScriptNames == {None, <<>>, <<"/">>, <<"/", "a">>, <<"/", "a", "/">>}

Subdomains == {None, <<>>, <<"w">>}

DefaultSubdomains == {<<>>, <<"d">>}

BindCalls ==
    {[fn |-> "Map.bind", host_matching |-> hm, default_subdomain |-> ds,
      server_name |-> sn, script_name |-> sc, subdomain |-> sd] :
        hm \in BOOLEAN, ds \in DefaultSubdomains, sn \in ServerNames,
        sc \in ScriptNames, sd \in Subdomains}

(***************************************************************************)
(* MapAdapter.get_host and the end of MapAdapter.build: the URL made of    *)
(* the (domain_part, path) that _partial_build returns.                    *)
(***************************************************************************)
\* MapAdapter.get_host(domain_part) of an adapter of a map with host_matching
get_host(adapter, host_matching, domain_part) ==
    IF host_matching
    THEN (IF domain_part = None THEN adapter.server_name
          ELSE to_unicode(domain_part))
    ELSE LET subdomain == IF domain_part = None THEN adapter.subdomain
                          ELSE to_unicode(domain_part)
         IN  (IF subdomain /= <<>> /\ subdomain /= None
              THEN subdomain \o <<".">> ELSE <<>>) \o adapter.server_name

\* path.lstrip('/')
RECURSIVE LStripSlash(_)
LStripSlash(path) ==
    IF path /= <<>> /\ Head(path) = "/" THEN LStripSlash(Tail(path)) ELSE path

\* The directory of a path: the path up to its last '/'.
RECURSIVE DirOf(_)
DirOf(base) ==
    IF base = <<>> \/ base[Len(base)] = "/" THEN base ELSE DirOf(Front(base))

\* url_join(base, './' + rest) for a path base and a rest without dot
\* segments: rest in the directory of base
url_join_relative(base, rest) == DirOf(base) \o rest

\* build whose shortcut does not look at force_external.
BuildUrlIgnoresForce(adapter, host_matching, domain_part, path, force_external) ==
    LET host == get_host(adapter, host_matching, domain_part)
    IN  IF \/ host_matching /\ host = adapter.server_name
           \/ ~host_matching /\ domain_part = adapter.subdomain
        THEN url_join_relative(adapter.script_name, LStripSlash(path))
        ELSE adapter.url_scheme \o <<":", "/", "/">> \o host
             \o Front(adapter.script_name) \o <<"/">> \o LStripSlash(path)

\* MapAdapter.build from "domain_part, path = rv" on
BuildUrl(adapter, host_matching, domain_part, path, force_external) ==
    LET host == get_host(adapter, host_matching, domain_part)
    IN  IF /\ ~force_external
           /\ \/ host_matching /\ host = adapter.server_name
              \/ ~host_matching /\ domain_part = adapter.subdomain
        THEN url_join_relative(adapter.script_name, LStripSlash(path))
        ELSE adapter.url_scheme \o <<":", "/", "/">> \o host
             \o Front(adapter.script_name) \o <<"/">> \o LStripSlash(path)

\* The adapter that the calls of the map's readers go through.
BoundAdapter == Bind(FALSE, <<>>, <<"e", "x">>, None, None)

\* The subdomain a rule of the pool is of.
RuleSubdomain(r) == IF r = 4 THEN <<"w">> ELSE <<>>

\* The path Rule.build gives for a rule of the pool.
RulePath(r) ==
    CASE r = 1 -> <<"/", "x">>
      [] r = 2 -> <<"/", "x", "/", "1">>
      [] r = 3 -> <<"/", "y", "/", "1">>
      [] r = 4 -> <<"/", "z">>
      [] OTHER -> <<"/", "z", "2">>

\* The value build returns, or the error it raises.
BuildReturn(rv, force_external) ==
    IF rv.kind /= "url" THEN rv
    ELSE [kind |-> "str",
          url |-> BuildUrl(BoundAdapter, FALSE, RuleSubdomain(rv.rule),
                           RulePath(rv.rule), force_external)]

Build(endpoint, values, method, force_external, append_unknown) ==
    /\ DoUpdate
    /\ LET rv == BuildOutcome(UpdatedByEndpoint, endpoint, values, method,
                              append_unknown)
       IN last' = [op |-> "build", endpoint |-> endpoint, values |-> values,
                   method |-> method, append_unknown |-> append_unknown,
                   force_external |-> force_external, result |-> rv,
                   returned |-> BuildReturn(rv, force_external)]
    /\ UNCHANGED <<rule_map, default_method, add_raised, respvars, fnvars>>

BuildUrlCall ==
    /\ call.fn = "MapAdapter.build"
    /\ result = NoCall
    /\ result' = [op |-> "build",
                  rv |-> BuildUrl(call.adapter, call.host_matching,
                                  call.domain_part, call.path,
                                  call.force_external)]
    /\ UNCHANGED <<call, mapvars, respvars>>

\* The adapters bind returns for a map with host matching hm.
Adapters(hm) ==
    {a \in {Bind(hm, ds, sn, sc, sd) :
                ds \in DefaultSubdomains, sn \in {<<"e", "x">>},
                sc \in ScriptNames, sd \in Subdomains} :
        a.kind = "MapAdapter"}

\* What a rule gives as its domain part: a subdomain, or a host under
\* host matching.
DomainParts == {<<>>, <<"w">>, <<"d">>, <<"e", "x">>, <<"o", ".", "e", "x">>}

BuiltPaths == {<<"/", "p">>, <<"/">>, <<"/", "p", "/", "q">>}

BuildUrlCalls ==
    {[fn |-> "MapAdapter.build", host_matching |-> hm, adapter |-> a,
      domain_part |-> dp, path |-> pa, force_external |-> fe] :
        hm \in BOOLEAN, a \in Adapters(TRUE) \cup Adapters(FALSE),
        dp \in DomainParts, pa \in BuiltPaths, fe \in BOOLEAN}

(***************************************************************************)
(* wrappers.py.  A body item is a text or a bytes string; text is a list   *)
(* of code points, bytes a list of byte values.                            *)
(***************************************************************************)
Text(s) == [t |-> "text", s |-> s]

Bytes(s) == [t |-> "bytes", s |-> s]

TextA == Text(<<97>>)            \* u'a'

TextE == Text(<<233, 97>>)       \* u'\xe9a'

BytesB == Bytes(<<98, 233>>)     \* b'b\xe9'

\* str.encode(charset) of one code point below 0x800.
EncodeChar(c, cs) ==
    CASE cs = "utf-8" ->
             IF c < 128 THEN <<c>> ELSE <<192 + (c \div 64), 128 + (c % 64)>>
      [] cs = "utf-16" -> <<c % 256, c \div 256>>
      [] OTHER -> <<c>>

RECURSIVE EncodeChars(_, _)
EncodeChars(s, cs) ==
    IF s = <<>> THEN <<>> ELSE EncodeChar(Head(s), cs) \o EncodeChars(Tail(s), cs)

\* str.encode(charset): utf-16 starts every encoded string with a BOM.
Encode(s, cs) ==
    (IF cs = "utf-16" THEN <<255, 254>> ELSE <<>>) \o EncodeChars(s, cs)

AsciiEncodable(s) == \A i \in 1..Len(s) : s[i] < 128

RECURSIVE SumLen(_)
SumLen(items) ==
    IF items = <<>> THEN 0 ELSE Len(Head(items).s) + SumLen(Tail(items))

\* _iter_encoded without the encoding of text items.
IterUnencoded(items, cs) == items

(***************************************************************************)
(* _iter_encoded(iterable, charset), as the list of what it yields.        *)
(***************************************************************************)
_iter_encoded(items, cs) ==
    [i \in 1..Len(items) |->
        IF items[i].t = "text" THEN Bytes(Encode(items[i].s, cs)) ELSE items[i]]

(***************************************************************************)
(* A body object: a list, a tuple, a one-shot iterator ("iter": it has no  *)
(* length, chunks are the items it has yet to yield) or another iterable   *)
(* with a length ("sized").  has_close: it has a close attribute.          *)
(***************************************************************************)
Body(k, cs, hc) == [kind |-> k, chunks |-> cs, has_close |-> hc]

EmptyTuple == Body("tuple", <<>>, FALSE)

\* BaseResponse.is_sequence
is_sequence(b) == b.kind \in {"tuple", "list"}

\* BaseResponse.is_streamed: len(self.response) raises for an iterator
is_streamed(b) == b.kind \notin {"tuple", "list", "sized"}

\* list(self.iter_encoded())
EncodedList(b, cs) == Body("list", _iter_encoded(b.chunks, cs), FALSE)

\* What is left of body b once something has iterated it to its end.
Drained(b) == IF b.kind = "iter" THEN [b EXCEPT !.chunks = <<>>] ELSE b

(***************************************************************************)
(* Headers: a list of (key, value); keys compare case-insensitively.       *)
(***************************************************************************)
Lower(k) ==
    CASE k = "Content-Length" -> "content-length"
      [] k = "Content-Type" -> "content-type"
      [] k = "Content-Location" -> "content-location"
      [] k = "Location" -> "location"
      [] k = "Expires" -> "expires"
      [] k = "X-Foo" -> "x-foo"
      [] k \in {"Foo", "FOO"} -> "foo"
      [] k \in {"Blub", "BLUB"} -> "blub"
      [] OTHER -> k

HasHeader(h, key) == \E i \in 1..Len(h) : Lower(h[i][1]) = Lower(key)

\* Headers.__setitem__(key, value): the first entry of that name is replaced
\* in place, later ones are dropped; a new name is appended.
RECURSIVE HRemove(_, _)
HRemove(h, key) ==
    IF h = <<>> THEN <<>>
    ELSE IF Lower(Head(h)[1]) = Lower(key) THEN HRemove(Tail(h), key)
    ELSE <<Head(h)>> \o HRemove(Tail(h), key)

\* A __setitem__ that appends whatever the container holds.
HSetAppends(h, key, value) == Append(h, <<key, value>>)

RECURSIVE HSet(_, _, _)
HSet(h, key, value) ==
    IF h = <<>> THEN <<<<key, value>>>>
    ELSE IF Lower(Head(h)[1]) = Lower(key)
    THEN <<<<key, value>>>> \o HRemove(Tail(h), key)
    ELSE <<Head(h)>> \o HSet(Tail(h), key, value)

str(n) == ToString(n)

(***************************************************************************)
(* BaseResponse.close(): close the body when it has a close attribute,     *)
(* then call every on-close callback.  CloseRan is the list of callables   *)
(* one close() runs, in order; "body_close" is the close of the body the   *)
(* response was built with.                                                *)
(***************************************************************************)
\* close() running the callbacks before the close of the body.
CloseCallsCallbacksFirst(b, oc) ==
    oc \o (IF b.has_close THEN <<"body_close">> ELSE <<>>)

\* close() without the on-close callbacks.
CloseCallsBodyOnly(b, oc) == IF b.has_close THEN <<"body_close">> ELSE <<>>

CloseCalls(b, oc) == (IF b.has_close THEN <<"body_close">> ELSE <<>>) \o oc

CloseRan == CloseCalls(response, _on_close)

RECURSIVE CountIn(_, _)
CountIn(x, s) ==
    IF s = <<>> THEN 0
    ELSE (IF Head(s) = x THEN 1 ELSE 0) + CountIn(x, Tail(s))

\* The body after its close ran: a closed iterator yields nothing more.
ClosedBody(b) == Drained(b)

DoClose ==
    /\ close_events < MaxCloseEvents
    /\ close_events' = close_events + 1
    /\ close_runs' = [c \in DOMAIN close_runs |->
                          close_runs[c] + CountIn(c, CloseRan)]
    /\ response' = IF response.has_close THEN ClosedBody(response) ELSE response

Close ==
    /\ DoClose
    /\ rlast' = [op |-> "close", ran |-> CloseRan]
    /\ UNCHANGED <<headers, status_code, direct_passthrough,
                   implicit_sequence_conversion,
                   automatically_set_content_length,
                   autocorrect_location_header, charset, _on_close, app_iter,
                   emitted, orig_body, app_iters, mapvars,
                   fnvars>>

(***************************************************************************)
(* BaseResponse.call_on_close(func)                                        *)
(***************************************************************************)
UserCallbacks == {"cb1", "cb2"}

CallOnClose(func) ==
    /\ func \notin Range(_on_close)
    /\ _on_close' = Append(_on_close, func)
    /\ rlast' = [op |-> "call_on_close", func |-> func]
    /\ UNCHANGED <<response, headers, status_code, direct_passthrough,
                   implicit_sequence_conversion,
                   automatically_set_content_length,
                   autocorrect_location_header, charset, app_iter, emitted,
                   close_runs, close_events, orig_body, app_iters, mapvars,
                   fnvars>>

(***************************************************************************)
(* BaseResponse.make_sequence()                                            *)
(***************************************************************************)
MadeSequence(b, cs) == IF is_sequence(b) THEN b ELSE EncodedList(b, cs)

\* A make_sequence that hands the close of the original body to
\* call_on_close at every call.
OnCloseOfOriginalBody(b, oc) ==
    IF orig_body.has_close THEN Append(oc, "body_close") ELSE oc

OnCloseAfterMakeSequence(b, oc) ==
    IF ~is_sequence(b) /\ b.has_close THEN Append(oc, "body_close") ELSE oc

MakeSequence ==
    /\ response' = MadeSequence(response, charset)
    /\ _on_close' = OnCloseAfterMakeSequence(response, _on_close)
    /\ rlast' = [op |-> "make_sequence", before |-> response]
    /\ UNCHANGED <<headers, status_code, direct_passthrough,
                   implicit_sequence_conversion,
                   automatically_set_content_length,
                   autocorrect_location_header, charset, app_iter, emitted,
                   close_runs, close_events, orig_body, app_iters, mapvars,
                   fnvars>>

(***************************************************************************)
(* BaseResponse._ensure_sequence(mutable=False)                            *)
(***************************************************************************)
\* An _ensure_sequence that forgets the implicit_sequence_conversion flag.
EnsureSequenceRaisesPassthroughOnly ==
    ~is_sequence(response) /\ direct_passthrough

EnsureSequenceRaises ==
    ~is_sequence(response)
    /\ (direct_passthrough \/ ~implicit_sequence_conversion)

EnsureSequence(mutable) ==
    /\ response' =
          IF is_sequence(response)
          THEN (IF mutable /\ response.kind /= "list"
                THEN [response EXCEPT !.kind = "list"] ELSE response)
          ELSE IF EnsureSequenceRaises THEN response
          ELSE MadeSequence(response, charset)
    /\ _on_close' =
          IF is_sequence(response) \/ EnsureSequenceRaises THEN _on_close
          ELSE OnCloseAfterMakeSequence(response, _on_close)
    /\ rlast' = [op |-> "_ensure_sequence", mutable |-> mutable,
                 before |-> response, raised |-> EnsureSequenceRaises]
    /\ UNCHANGED <<headers, status_code, direct_passthrough,
                   implicit_sequence_conversion,
                   automatically_set_content_length,
                   autocorrect_location_header, charset, app_iter, emitted,
                   close_runs, close_events, orig_body, app_iters, mapvars,
                   fnvars>>

(***************************************************************************)
(* BaseResponse.freeze()                                                   *)
(***************************************************************************)
\* freeze adding its Content-Length after the headers there are.
FrozenHeadersAppended(h, b, cs) ==
    Append(h, <<"Content-Length", str(SumLen(EncodedList(b, cs).chunks))>>)

FrozenHeaders(h, b, cs) ==
    HSet(h, "Content-Length", str(SumLen(EncodedList(b, cs).chunks)))

Freeze ==
    /\ response' = EncodedList(response, charset)
    /\ headers' = FrozenHeaders(headers, response, charset)
    /\ rlast' = [op |-> "freeze", before |-> response, headers |-> headers]
    /\ UNCHANGED <<status_code, direct_passthrough,
                   implicit_sequence_conversion,
                   automatically_set_content_length,
                   autocorrect_location_header, charset, _on_close, app_iter,
                   emitted, close_runs, close_events, orig_body, app_iters,
                   mapvars,
                   fnvars>>

(***************************************************************************)
(* BaseResponse.get_wsgi_headers(environ)                                  *)
(***************************************************************************)
Absent == "<absent>"

\* The value the scan over the headers leaves for a name: the last one.
RECURSIVE HLast(_, _)
HLast(h, ikey) ==
    IF h = <<>> THEN Absent
    ELSE IF Lower(h[Len(h)][1]) = ikey THEN h[Len(h)][2]
    ELSE HLast(Front(h), ikey)

\* iri_to_uri: percent-encodes what is not ASCII.
iri_to_uri(v) == IF v = "/<e9>" THEN "/%C3%A9" ELSE v

RootUrl == "http://h/"

\* get_current_url(environ, root_only=True)
get_current_url(environ) == RootUrl

\* url_join(base, url) for a base that is a root URL
url_join(base, url) ==
    CASE url = "/p" -> "http://h/p"
      [] url = "/%C3%A9" -> "http://h/%C3%A9"
      [] url = "/<e9>" -> "http://h/<e9>"
      [] OTHER -> url

EntityHeaders ==
    {"allow", "content-encoding", "content-language", "content-length",
     "content-location", "content-md5", "content-range", "content-type",
     "expires", "last-modified"}

RECURSIVE remove_entity_headers(_)
remove_entity_headers(h) ==
    IF h = <<>> THEN <<>>
    ELSE IF Lower(Head(h)[1]) \in EntityHeaders
    THEN remove_entity_headers(Tail(h))
    ELSE <<Head(h)>> \o remove_entity_headers(Tail(h))

Informational(status) == 100 <= status /\ status < 200

LocationHeaders(h, autocorrect, environ) ==
    LET location == HLast(h, "location")
        uri == iri_to_uri(location)
        joined == IF autocorrect
                  THEN url_join(get_current_url(environ), uri) ELSE uri
    IN  IF location /= Absent /\ joined /= location
        THEN HSet(h, "Location", joined) ELSE h

ContentLocationHeaders(h0, h) ==
    LET content_location == HLast(h0, "content-location")
    IN  IF content_location /= Absent
        THEN HSet(h, "Content-Location", iri_to_uri(content_location)) ELSE h

\* The status branch without the 304 case.
StatusHeadersKeepEntity(h, status) ==
    IF Informational(status) \/ status = 204
    THEN HSet(h, "Content-Length", "0") ELSE h

StatusHeaders(h, status) ==
    IF Informational(status) \/ status = 204
    THEN HSet(h, "Content-Length", "0")
    ELSE IF status = 304 THEN remove_entity_headers(h)
    ELSE h

\* to_bytes(x, 'ascii') raises UnicodeError for some item
ToBytesAsciiRaises(items) ==
    \E i \in 1..Len(items) :
        items[i].t = "text" /\ ~AsciiEncodable(items[i].s)

\* sum(len(to_bytes(x, 'ascii')) for x in self.response)
AsciiLength(items) == SumLen(items)

AutoLength(h, content_length, status, b, auto) ==
    IF auto /\ is_sequence(b) /\ content_length = Absent /\ status /= 304
       /\ ~ToBytesAsciiRaises(b.chunks)
    THEN HSet(h, "Content-Length", str(AsciiLength(b.chunks))) ELSE h

WsgiHeaders(h, status, b, auto, autocorrect, environ) ==
    LET h1 == LocationHeaders(h, autocorrect, environ)
        h2 == ContentLocationHeaders(h, h1)
        h3 == StatusHeaders(h2, status)
        content_length == IF Informational(status) \/ status = 204
                          THEN "0" ELSE HLast(h, "content-length")
    IN  AutoLength(h3, content_length, status, b, auto)

Environs == [REQUEST_METHOD : {"GET", "HEAD"}]

\* get_wsgi_headers working on self.headers itself, not on a copy.
GetWsgiHeadersInPlace(environ) ==
    /\ rlast' = [op |-> "get_wsgi_headers", environ |-> environ,
                 result |-> WsgiHeaders(headers, status_code, response,
                                        automatically_set_content_length,
                                        autocorrect_location_header, environ)]
    /\ headers' = WsgiHeaders(headers, status_code, response,
                              automatically_set_content_length,
                              autocorrect_location_header, environ)
    /\ UNCHANGED <<response, status_code, direct_passthrough,
                   implicit_sequence_conversion,
                   automatically_set_content_length,
                   autocorrect_location_header, charset, _on_close, app_iter,
                   emitted, close_runs, close_events, orig_body, app_iters,
                   mapvars,
                   fnvars>>

\* headers = Headers(self.headers): the call works on a copy and reads the
\* status and the body only.
GetWsgiHeaders(environ) ==
    /\ rlast' = [op |-> "get_wsgi_headers", environ |-> environ,
                 result |-> WsgiHeaders(headers, status_code, response,
                                        automatically_set_content_length,
                                        autocorrect_location_header, environ)]
    /\ UNCHANGED <<response, headers, status_code, direct_passthrough,
                   implicit_sequence_conversion,
                   automatically_set_content_length,
                   autocorrect_location_header, charset, _on_close, app_iter,
                   emitted, close_runs, close_events, orig_body, app_iters,
                   mapvars,
                   fnvars>>

(***************************************************************************)
(* BaseResponse.get_app_iter(environ).  The application iterable is either *)
(* the body itself ("raw") or a ClosingIterator over an iterable: the      *)
(* empty tuple, or iter_encoded() over the body the response has now.      *)
(***************************************************************************)
\* The branches with the direct_passthrough test first.
AppIterBranchPassthroughFirst(method, status, passthrough) ==
    IF passthrough THEN "raw"
    ELSE IF method = "HEAD" \/ Informational(status) \/ status \in {204, 304}
    THEN "empty"
    ELSE "encoded"

AppIterBranch(method, status, passthrough) ==
    IF method = "HEAD" \/ Informational(status) \/ status \in {204, 304}
    THEN "empty"
    ELSE IF passthrough THEN "raw"
    ELSE "encoded"

NoAppIter ==
    [kind |-> "none", body |-> EmptyTuple, encode |-> FALSE, pos |-> 0,
     state |-> "none", environ |-> [REQUEST_METHOD |-> "GET"]]

GetAppIter(environ) ==
    LET branch == AppIterBranch(environ.REQUEST_METHOD, status_code,
                                direct_passthrough)
    IN  /\ app_iters < MaxAppIters
        /\ app_iters' = app_iters + 1
        /\ app_iter' =
              CASE branch = "empty" ->
                       [kind |-> "ClosingIterator", body |-> EmptyTuple,
                        encode |-> FALSE, pos |-> 0, state |-> "open",
                        environ |-> environ]
                [] branch = "raw" ->
                       [kind |-> "raw", body |-> response, encode |-> FALSE,
                        pos |-> 0, state |-> "open", environ |-> environ]
                [] OTHER ->
                       [kind |-> "ClosingIterator", body |-> response,
                        encode |-> TRUE, pos |-> 0, state |-> "open",
                        environ |-> environ]
        /\ emitted' = <<>>
        /\ rlast' = [op |-> "get_app_iter", environ |-> environ,
                     before |-> response]
        /\ UNCHANGED <<response, headers, status_code, direct_passthrough,
                       implicit_sequence_conversion,
                       automatically_set_content_length,
                       autocorrect_location_header, charset, _on_close,
                       close_runs, close_events, orig_body, mapvars,
                   fnvars>>

\* What the iterated body has yet to yield.  A one-shot iterator is shared
\* with the response while it is the response's body, and is at its end
\* once something else has replaced it there.
AppIterSource ==
    IF app_iter.body.kind = "iter"
    THEN (IF response.kind /= "iter" THEN <<>> ELSE response.chunks)
    ELSE SubSeq(app_iter.body.chunks, app_iter.pos + 1,
                Len(app_iter.body.chunks))

\* next() on the application iterable
AppIterNext ==
    /\ app_iter.state = "open"
    /\ IF AppIterSource /= <<>>
       THEN /\ emitted' = Append(emitted,
                   IF app_iter.encode
                   THEN _iter_encoded(<<Head(AppIterSource)>>, charset)[1]
                   ELSE Head(AppIterSource))
            /\ app_iter' = [app_iter EXCEPT !.pos = @ + 1]
            /\ response' = IF app_iter.body.kind = "iter"
                           THEN [response EXCEPT !.chunks = Tail(@)]
                           ELSE response
            /\ rlast' = [op |-> "next", item |-> TRUE]
            /\ UNCHANGED <<close_runs, close_events>>
       ELSE /\ app_iter' = [app_iter EXCEPT !.state = "exhausted"]
            /\ IF app_iter.kind = "ClosingIterator"
               THEN /\ DoClose
                    /\ rlast' = [op |-> "next", item |-> FALSE,
                                 before |-> response, ran |-> CloseRan]
               ELSE /\ rlast' = [op |-> "next", item |-> FALSE,
                                 before |-> response, ran |-> <<>>]
                    /\ UNCHANGED <<response, close_runs, close_events>>
            /\ UNCHANGED emitted
    /\ UNCHANGED <<headers, status_code, direct_passthrough,
                   implicit_sequence_conversion,
                   automatically_set_content_length,
                   autocorrect_location_header, charset, _on_close,
                   orig_body, app_iters, mapvars,
                   fnvars>>

\* close() on the application iterable, before it reached its end
AppIterClose ==
    /\ app_iter.state = "open"
    /\ app_iter' = [app_iter EXCEPT !.state = "closed"]
    /\ IF app_iter.kind = "ClosingIterator"
       THEN /\ DoClose
            /\ rlast' = [op |-> "app_iter_close", before |-> response,
                         ran |-> CloseRan]
       ELSE /\ close_events < MaxCloseEvents
            /\ close_events' = close_events + 1
            /\ close_runs' =
                  [close_runs EXCEPT !["body_close"] =
                       IF app_iter.body.has_close THEN @ + 1 ELSE @]
            /\ response' =
                  IF app_iter.body.has_close /\ response.kind = "iter"
                  THEN ClosedBody(response) ELSE response
            /\ rlast' = [op |-> "app_iter_close", before |-> response,
                         ran |-> IF app_iter.body.has_close
                                 THEN <<"body_close">> ELSE <<>>]
    /\ UNCHANGED <<headers, status_code, direct_passthrough,
                   implicit_sequence_conversion,
                   automatically_set_content_length,
                   autocorrect_location_header, charset, _on_close, emitted,
                   orig_body, app_iters, mapvars,
                   fnvars>>

(***************************************************************************)
(* The map after Map.__init__ with no rules, bound to an adapter.          *)
(***************************************************************************)
DefaultMethods == {"GET", "POST"}

\* The rules another map of the application has bound already.
OtherMapRules == {{}, {5}}

InitMap ==
    /\ _rules = <<>>
    /\ _rules_by_endpoint = [e \in {} |-> <<>>]
    /\ _remap = TRUE
    /\ \E other \in OtherMapRules :
          rule_map = [r \in RuleIds |-> IF r \in other THEN "other" ELSE "none"]
    /\ default_method \in DefaultMethods
    /\ add_raised = FALSE
    /\ last = NoCall

BuildMethods == {"None", "GET", "POST"}

NextMap ==
    \/ \E f \in Factories : Add(f)
    \/ Update
    \/ \E e \in Endpoints \cup {"None", "nope"} : IterRules(e)
    \/ \E e \in Endpoints \cup {"nope"}, args \in SUBSET ArgNames :
          IsEndpointExpecting(e, args)
    \/ \E e \in Endpoints \cup {"nope"}, v \in ValueDicts, m \in BuildMethods :
          Build(e, v, m, FALSE, TRUE)
    \/ \E p \in Paths : AllowedMethods(p)

(***************************************************************************)
(* The responses the checks start from: what BaseResponse.__init__ leaves  *)
(* for a body, a status, headers and the class attributes a subclass sets. *)
(***************************************************************************)
ChunkLists == {<<>>, <<TextA>>, <<TextE, BytesB>>, <<BytesB, TextA>>}

Bodies ==
    {Body(k, c, FALSE) : k \in {"list", "tuple", "sized"}, c \in ChunkLists}
    \cup {Body(k, c, hc) : k \in {"iter"}, c \in ChunkLists, hc \in BOOLEAN}
    \cup {Body("sized", c, TRUE) : c \in {<<TextE, BytesB>>}}

StatusCodes == {100, 199, 200, 204, 304}

Charsets == {"utf-8", "utf-16"}

ContentType == <<"Content-Type", "text/plain">>

HeaderSamples ==
    {<<>>,
     <<ContentType>>,
     <<<<"Content-Length", "7">>>>,
     <<<<"content-length", "7">>, <<"X-Foo", "1">>>>,
     <<<<"Location", "/p">>, ContentType, <<"Expires", "x">>>>,
     <<<<"Content-Location", "/<e9>">>, <<"Location", "/<e9>">>>>,
     <<<<"Location", "http://o/q">>>>}

CloseRuns0 == [c \in {"body_close"} \cup UserCallbacks |-> 0]

InitResponseWith(bodies, statuses, hdrs, charsets, pass, impl, alen, aloc) ==
    /\ response \in bodies
    /\ orig_body = response
    /\ headers \in hdrs
    /\ status_code \in statuses
    /\ charset \in charsets
    /\ direct_passthrough \in pass
    /\ implicit_sequence_conversion \in impl
    /\ automatically_set_content_length \in alen
    /\ autocorrect_location_header \in aloc
    /\ _on_close = <<>>
    /\ app_iter = NoAppIter
    /\ emitted = <<>>
    /\ close_runs = CloseRuns0
    /\ close_events = 0
    /\ app_iters = 0
    /\ rlast = NoCall

\* No response object: the map is exercised on its own.
InitNoResponse ==
    InitResponseWith({EmptyTuple}, {200}, {<<>>}, {"utf-8"}, {FALSE}, {TRUE},
                     {TRUE}, {TRUE})

\* No map: the response is exercised on its own.
InitNoMap ==
    /\ InitMap
    /\ rule_map = [r \in RuleIds |-> "none"]
    /\ default_method = "GET"

\* No function call under study.
InitNoFn == call = NoCall /\ result = NoCall

\* One function call under study, drawn from calls, and nothing else.
InitFn(calls) ==
    /\ InitNoMap
    /\ InitNoResponse
    /\ call \in calls
    /\ result = NoCall

Init == InitMap /\ InitNoResponse /\ InitNoFn

Next == NextMap

Spec == Init /\ [][Next]_vars

\* The map as its rules are added and as MapAdapter.test reads it: test
\* writes nothing but the record of its call, as the other readers do.
NextTest ==
    \/ \E f \in Factories : Add(f)
    \/ Update
    \/ \E p \in Paths, m \in BuildMethods : Test(p, m)

SpecTest == Init /\ [][NextTest]_vars

(***************************************************************************)
(* The life of one response: buffering, freezing, closing, on-close        *)
(* callbacks and the application iterable.                                 *)
(***************************************************************************)
LifeChunkLists == {<<TextE, BytesB>>}

LifeBodies == {b \in Bodies : b.chunks \in LifeChunkLists}

LifeHeaders == {<<<<"content-length", "7">>, <<"X-Foo", "1">>>>}

ClosableIterator == Body("iter", <<TextE, BytesB>>, TRUE)

InitResponse ==
    /\ InitNoMap
    /\ InitNoFn
    /\ \/ InitResponseWith(LifeBodies, {200}, LifeHeaders, {"utf-8"}, BOOLEAN,
                           {TRUE}, {TRUE}, {TRUE})
       \/ InitResponseWith({ClosableIterator}, {304}, LifeHeaders, {"utf-8"},
                           {TRUE}, {TRUE}, {TRUE}, {TRUE})
       \/ InitResponseWith({ClosableIterator}, {200}, LifeHeaders, {"utf-8"},
                           {FALSE}, {FALSE}, {TRUE}, {TRUE})

NextResponse ==
    \/ MakeSequence
    \/ \E mutable \in BOOLEAN : EnsureSequence(mutable)
    \/ Freeze
    \/ Close
    \/ \E func \in UserCallbacks : CallOnClose(func)
    \/ \E environ \in Environs : GetAppIter(environ)
    \/ AppIterNext
    \/ AppIterClose

SpecResponse == InitResponse /\ [][NextResponse]_vars

(***************************************************************************)
(* What one response hands to the gateway: get_wsgi_headers and            *)
(* get_app_iter (with the consumption of its result) and freeze, over the  *)
(* statuses, headers, bodies, charsets and flags drawn at the start.       *)
(***************************************************************************)
HeaderStudyBodies == {Body("list", <<TextA>>, FALSE), Body("iter", <<TextA>>, FALSE)}

InitWsgi ==
    /\ InitNoMap
    /\ InitNoFn
    /\ \/ InitResponseWith(HeaderStudyBodies, StatusCodes, HeaderSamples,
                           {"utf-8"}, {FALSE}, {TRUE}, BOOLEAN, BOOLEAN)
       \/ InitResponseWith(Bodies, StatusCodes,
                           {<<>>, <<<<"content-length", "7">>, <<"X-Foo", "1">>>>},
                           Charsets, BOOLEAN, BOOLEAN, BOOLEAN, {TRUE})

NextWsgi ==
    \/ \E environ \in Environs : GetWsgiHeaders(environ)
    \/ \E environ \in Environs : GetAppIter(environ)
    \/ AppIterNext
    \/ Freeze

SpecWsgi == InitWsgi /\ [][NextWsgi]_vars

(***************************************************************************)
(* exceptions.py.  An object of the module's globals: a name, and a code   *)
(* attribute that is absent (or None) or a status code.  A class inherits  *)
(* the code of its base.                                                   *)
(***************************************************************************)
Object(n, hc, c) == [name |-> n, has_code |-> hc, code |-> c]

HTTPExceptionClass == Object("HTTPException", FALSE, 0)

BadRequest == Object("BadRequest", TRUE, 400)

ClientDisconnected == Object("ClientDisconnected", TRUE, 400)

NotFound == Object("NotFound", TRUE, 404)

MethodNotAllowed == Object("MethodNotAllowed", TRUE, 405)

SysModule == Object("sys", FALSE, 0)

\* globals() when _find_exceptions runs
Globals ==
    {HTTPExceptionClass, BadRequest, ClientDisconnected, NotFound,
     MethodNotAllowed, SysModule}

\* default_exceptions = {} ; __all__ = ['HTTPException']
NoExceptions == [default_exceptions |-> <<>>, all |-> <<"HTTPException">>]

\* The export list left as it is.
ExportedNothing(all, obj) == all

\* __all__.append(obj.__name__)
Exported(all, obj) == Append(all, obj.name)

\* default_exceptions[obj.code] = obj
Registered(de, obj) ==
    [c \in DOMAIN de \cup {obj.code} |-> IF c = obj.code THEN obj ELSE de[c]]

\* One turn of the loop of _find_exceptions, over the global obj.
FindExceptionsStep(obj) ==
    /\ call.fn = "_find_exceptions"
    /\ obj \in Globals \ call.scanned
    /\ call' = [call EXCEPT !.scanned = @ \cup {obj}]
    /\ result' =
          IF obj.has_code
          THEN [default_exceptions |->
                    Registered(result.default_exceptions, obj),
                all |-> Exported(result.all, obj)]
          ELSE result
    /\ UNCHANGED <<mapvars, respvars>>

InitFindExceptions ==
    /\ InitNoMap
    /\ InitNoResponse
    /\ call = [fn |-> "_find_exceptions", scanned |-> {}]
    /\ result = NoExceptions

\* globals() is walked in the order the dictionary gives.
NextFindExceptions == \E obj \in Globals : FindExceptionsStep(obj)

SpecFindExceptions == InitFindExceptions /\ [][NextFindExceptions]_vars

(***************************************************************************)
(* Aborter.  A first argument is an integer or some other object (a        *)
(* response, a WSGI application); a mapping takes such values to classes.  *)
(***************************************************************************)
IntCode(n) == [t |-> "int", n |-> n]

ObjCode(o) == [t |-> "obj", o |-> o]

CustomNotFound == Object("CustomNotFound", TRUE, 404)

\* default_exceptions once the module is loaded, either class under 400
DefaultExceptions ==
    {[k \in {IntCode(400), IntCode(404), IntCode(405)} |->
         CASE k = IntCode(400) -> c400
           [] k = IntCode(404) -> NotFound
           [] OTHER -> MethodNotAllowed] : c400 \in {BadRequest, ClientDisconnected}}

NoMapping == [k \in {} |-> NotFound]

Extras ==
    {NoMapping,
     [k \in {IntCode(404), ObjCode("app")} |->
         IF k = IntCode(404) THEN CustomNotFound ELSE BadRequest]}

\* dict.update
DictUpdate(d, e) ==
    [k \in DOMAIN d \cup DOMAIN e |-> IF k \in DOMAIN e THEN e[k] ELSE d[k]]

\* Aborter.__init__(mapping, extra), both given
AborterInit(mapping, extra) == DictUpdate(mapping, extra)

\* The parameters of a class's constructor, after self.
Params(cls) ==
    IF cls = MethodNotAllowed THEN <<"valid_methods", "description">>
    ELSE <<"description", "response">>

\* cls(*args, **kwargs) is a call the constructor's signature rejects
ConstructRaises(cls, args, kwargs) ==
    \/ Len(args) > Len(Params(cls))
    \/ \E k \in DOMAIN kwargs :
          \/ k \notin Range(Params(cls))
          \/ \E i \in 1..Len(args) : i <= Len(Params(cls)) /\ Params(cls)[i] = k

\* cls(*args, **kwargs): the instance, by the values its parameters take
Construct(cls, args, kwargs) ==
    [cls |-> cls.name,
     fields |-> [q \in Range(Params(cls)) |->
                    LET i == CHOOSE i \in 1..Len(Params(cls)) :
                                 Params(cls)[i] = q
                    IN  IF i <= Len(args) THEN args[i]
                        ELSE IF q \in DOMAIN kwargs THEN kwargs[q]
                        ELSE "None"]]

\* __call__ with the lookup before the test for a lone non-integer.
AborterRaisesLookupFirst(mapping, code, args, kwargs) ==
    IF code \notin DOMAIN mapping
    THEN [exc |-> "LookupError", message |-> <<"no exception for", code>>]
    ELSE IF ConstructRaises(mapping[code], args, kwargs)
    THEN [exc |-> "TypeError"]
    ELSE [exc |-> "instance",
          instance |-> Construct(mapping[code], args, kwargs)]

\* Aborter.__call__(code, *args, **kwargs): what it raises
AborterRaises(mapping, code, args, kwargs) ==
    IF args = <<>> /\ DOMAIN kwargs = {} /\ code.t /= "int"
    THEN [exc |-> "HTTPException", response |-> code]
    ELSE IF code \notin DOMAIN mapping
    THEN [exc |-> "LookupError", message |-> <<"no exception for", code>>]
    ELSE IF ConstructRaises(mapping[code], args, kwargs)
    THEN [exc |-> "TypeError"]
    ELSE [exc |-> "instance",
          instance |-> Construct(mapping[code], args, kwargs)]

AborterCall ==
    /\ call.fn = "Aborter.__call__"
    /\ result = NoCall
    /\ result' = [op |-> "raised",
                  raised |-> AborterRaises(call.mapping, call.code, call.args,
                                           call.kwargs)]
    /\ UNCHANGED <<call, mapvars, respvars>>

AbortCodes ==
    {IntCode(400), IntCode(404), IntCode(405), IntCode(999), ObjCode("app"),
     ObjCode("response")}

ArgValues == <<"a1", "a2", "a3", "a4">>

ArgLists == {SubSeq(ArgValues, 1, n) : n \in 0..MaxArgs}

KeywordNames == {"description", "valid_methods", "bogus"}

Keywords == UNION {[ks -> {"kw"}] : ks \in SUBSET KeywordNames}

AborterCalls ==
    {[fn |-> "Aborter.__call__", mapping |-> AborterInit(m, e), code |-> c,
      args |-> a, kwargs |-> kw] :
        m \in DefaultExceptions, e \in Extras, c \in AbortCodes,
        a \in ArgLists, kw \in Keywords}

SpecAborter == InitFn(AborterCalls) /\ [][AborterCall]_vars

SpecBind == InitFn(BindCalls) /\ [][BindCall]_vars

SpecBuildUrl ==
    InitFn({c \in BuildUrlCalls : c.adapter \in Adapters(c.host_matching)})
    /\ [][BuildUrlCall]_vars

(***************************************************************************)
(* werkzeug.utils: validate_arguments and bind_arguments.  A function is   *)
(* its signature: the declared parameters (name, has_default, default) in  *)
(* order, and the names of its positional and keyword captures, each None  *)
(* or the name in a one-element tuple.  A dict is a function on its keys.  *)
(***************************************************************************)
\* The dict d without the keys outside keys.
Restrict(d, keys) == [k \in DOMAIN d \cap keys |-> d[k]]

Param(name, has_default, default) ==
    [name |-> name, has_default |-> has_default, default |-> default]

Function(params, vararg_var, kwarg_var) ==
    [params |-> params, vararg_var |-> vararg_var, kwarg_var |-> kwarg_var]

\* lambda: None
take_none == Function(<<>>, None, None)

\* lambda a, b: None
take_two == Function(<<Param("a", FALSE, 0), Param("b", FALSE, 0)>>, None, None)

\* lambda a, b=0: None
take_two_one_default ==
    Function(<<Param("a", FALSE, 0), Param("b", TRUE, 0)>>, None, None)

\* lambda a, *args: None
take_one_varargs == Function(<<Param("a", FALSE, 0)>>, <<"args">>, None)

\* lambda a, **kw: None
take_one_kwargs == Function(<<Param("a", FALSE, 0)>>, None, <<"kw">>)

\* lambda a, b=0, *args, **kw: None
take_all ==
    Function(<<Param("a", FALSE, 0), Param("b", TRUE, 0)>>, <<"args">>, <<"kw">>)

ParamNames(func) == {func.params[i].name : i \in 1..Len(func.params)}

\* The loop of the parser over the declared parameters from the idx-th on:
\* the values it appends to new_args.
RECURSIVE NewArgs(_, _, _, _)
NewArgs(params, args, kwargs, idx) ==
    IF idx > Len(params) THEN <<>>
    ELSE LET p == params[idx]
             here == IF idx <= Len(args) THEN <<args[idx]>>
                     ELSE IF p.name \in DOMAIN kwargs THEN <<kwargs[p.name]>>
                     ELSE IF p.has_default THEN <<p.default>>
                     ELSE <<>>
         IN here \o NewArgs(params, args, kwargs, idx + 1)

\* The names the loop appends to missing.
RECURSIVE Missing(_, _, _, _)
Missing(params, args, kwargs, idx) ==
    IF idx > Len(params) THEN <<>>
    ELSE LET p == params[idx]
             here == IF /\ idx > Len(args)
                        /\ p.name \notin DOMAIN kwargs
                        /\ ~p.has_default
                     THEN <<p.name>> ELSE <<>>
         IN here \o Missing(params, args, kwargs, idx + 1)

\* The parser of a signature, applied to args and kwargs: positional values
\* fill the parameters first, then keywords, then defaults; what the
\* function cannot accept goes to extra and extra_positional.
_parse_signature(func, args, kwargs) ==
    LET arg_count == Len(func.params)
        positional ==
            {func.params[i].name : i \in 1..arg_count \cap 1..Len(args)}
        new_args == NewArgs(func.params, args, kwargs, 1)
        twice == Restrict(kwargs, positional)
        rest == Restrict(kwargs, DOMAIN kwargs \ ParamNames(func))
        extra_positional == SubSeq(args, arg_count + 1, Len(args))
    IN [args |-> IF func.vararg_var /= None
                 THEN new_args \o extra_positional ELSE new_args,
        kwargs |-> IF func.kwarg_var = None THEN EmptyDict ELSE rest,
        missing |-> Missing(func.params, args, kwargs, 1),
        extra |-> IF func.kwarg_var = None
                  THEN DictUpdate(twice, rest) ELSE twice,
        extra_positional |-> IF func.vararg_var /= None
                             THEN <<>> ELSE extra_positional,
        arg_spec |-> func.params,
        vararg_var |-> func.vararg_var,
        kwarg_var |-> func.kwarg_var]

\* ArgumentValidationError(missing, extra, extra_positional); an argument
\* left None is given here as the empty value the constructor puts for it.
ArgumentValidationError(missing, extra, extra_positional) ==
    [kind |-> "ArgumentValidationError", missing |-> Range(missing),
     extra |-> extra, extra_positional |-> extra_positional]

\* validate_arguments that reports surplus values before missing names
ValidateArgumentsExtraFirst(func, args, kwargs, drop_extra) ==
    LET p == _parse_signature(func, args, kwargs)
    IN IF (DOMAIN p.extra /= {} \/ p.extra_positional /= <<>>) /\ ~drop_extra
       THEN ArgumentValidationError(<<>>, p.extra, p.extra_positional)
       ELSE IF p.missing /= <<>>
       THEN ArgumentValidationError(p.missing, EmptyDict, <<>>)
       ELSE [kind |-> "return", args |-> p.args, kwargs |-> p.kwargs]

validate_arguments(func, args, kwargs, drop_extra) ==
    LET p == _parse_signature(func, args, kwargs)
    IN IF p.missing /= <<>>
       THEN ArgumentValidationError(p.missing, EmptyDict, <<>>)
       ELSE IF (DOMAIN p.extra /= {} \/ p.extra_positional /= <<>>)
               /\ ~drop_extra
       THEN ArgumentValidationError(<<>>, p.extra, p.extra_positional)
       ELSE [kind |-> "return", args |-> p.args, kwargs |-> p.kwargs]

ValidateArgumentsCall ==
    /\ call.fn = "validate_arguments"
    /\ result = NoCall
    /\ result' = validate_arguments(call.func, call.args, call.kwargs,
                                    call.drop_extra)
    /\ UNCHANGED <<call, mapvars, respvars>>

\* zip(arg_spec, args) as the names bound and the value of each
Zipped(arg_spec, args) ==
    {arg_spec[i].name : i \in 1..Len(arg_spec) \cap 1..Len(args)}

ZippedValue(arg_spec, args, name) ==
    args[CHOOSE i \in 1..Len(arg_spec) \cap 1..Len(args) :
             arg_spec[i].name = name]

\* The captures a signature names.
Captures(p) ==
    (IF p.vararg_var /= None THEN {p.vararg_var[1]} ELSE {})
    \cup (IF p.kwarg_var /= None THEN {p.kwarg_var[1]} ELSE {})

bind_arguments(func, args, kwargs) ==
    LET p == _parse_signature(func, args, kwargs)
        multikw == DOMAIN p.extra \cap ParamNames(func)
        values ==
            [n \in Zipped(p.arg_spec, p.args) \cup Captures(p) |->
                IF p.kwarg_var /= None /\ n = p.kwarg_var[1] THEN p.extra
                ELSE IF p.vararg_var /= None /\ n = p.vararg_var[1]
                THEN p.extra_positional
                ELSE ZippedValue(p.arg_spec, p.args, n)]
    IN IF p.vararg_var = None /\ p.extra_positional /= <<>>
       THEN [kind |-> "TypeError",
             message |-> "too many positional arguments"]
       ELSE IF p.kwarg_var /= None /\ multikw /= {}
       THEN [kind |-> "TypeError",
             message |-> "got multiple values for keyword argument"]
       ELSE IF p.kwarg_var = None /\ DOMAIN p.extra /= {}
       THEN [kind |-> "TypeError",
             message |-> "got unexpected keyword argument"]
       ELSE [kind |-> "return", values |-> values]

BindArgumentsCall ==
    /\ call.fn = "bind_arguments"
    /\ result = NoCall
    /\ result' = bind_arguments(call.func, call.args, call.kwargs)
    /\ UNCHANGED <<call, mapvars, respvars>>

Functions ==
    {take_none, take_two, take_two_one_default, take_one_varargs,
     take_one_kwargs, take_all}

PositionalArgs == {[i \in 1..n |-> i] : n \in 0..MaxArgs}

KeywordArgs == UNION {[ks -> {2, 9}] : ks \in SUBSET {"a", "b", "c"}}

ValidateArgumentsCalls ==
    {[fn |-> "validate_arguments", func |-> f, args |-> a, kwargs |-> kw,
      drop_extra |-> d] :
        f \in Functions, a \in PositionalArgs, kw \in KeywordArgs,
        d \in BOOLEAN}

BindArgumentsCalls ==
    {[fn |-> "bind_arguments", func |-> f, args |-> a, kwargs |-> kw] :
        f \in Functions, a \in PositionalArgs, kw \in KeywordArgs}

SpecValidateArguments ==
    InitFn(ValidateArgumentsCalls) /\ [][ValidateArgumentsCall]_vars

SpecBindArguments == InitFn(BindArgumentsCalls) /\ [][BindArgumentsCall]_vars

(***************************************************************************)
(* werkzeug.utils.secure_filename.  A filename is a sequence of            *)
(* characters; "<fc>" is the character u-umlaut (the byte FC in a byte     *)
(* string).  The call's environment is the kind of string passed (text,    *)
(* or the byte string that is the native string of Python 2) and os.name.  *)
(***************************************************************************)
LowerLetters ==
    <<"a", "b", "c", "d", "e", "f", "g", "h", "i", "j", "k", "l", "m", "n",
      "o", "p", "q", "r", "s", "t", "u", "v", "w", "x", "y", "z">>

UpperLetters ==
    <<"A", "B", "C", "D", "E", "F", "G", "H", "I", "J", "K", "L", "M", "N",
      "O", "P", "Q", "R", "S", "T", "U", "V", "W", "X", "Y", "Z">>

Digits == {"0", "1", "2", "3", "4", "5", "6", "7", "8", "9"}

\* _filename_ascii_strip_re removes what is outside [A-Za-z0-9_.-]
FilenameAscii ==
    Range(LowerLetters) \cup Range(UpperLetters) \cup Digits
    \cup {"_", ".", "-"}

_windows_device_files ==
    {<<"C", "O", "N">>, <<"A", "U", "X">>, <<"C", "O", "M", "1">>,
     <<"C", "O", "M", "2">>, <<"C", "O", "M", "3">>, <<"C", "O", "M", "4">>,
     <<"L", "P", "T", "1">>, <<"L", "P", "T", "2">>, <<"L", "P", "T", "3">>,
     <<"P", "R", "N">>, <<"N", "U", "L">>}

\* str.upper of one character and of a string
UpperChar(c) ==
    IF c \in Range(LowerLetters)
    THEN UpperLetters[CHOOSE i \in 1..Len(LowerLetters) : LowerLetters[i] = c]
    ELSE c

StrUpper(s) == [i \in 1..Len(s) |-> UpperChar(s[i])]

\* The characters str.split() splits at.
Whitespace == {" ", "\t"}

\* normalize('NFKD', c).encode('ascii', 'ignore') of one character: the
\* umlaut decomposes into u and a combining mark, which is ignored.
AsciiOf(c) == IF c = "<fc>" THEN <<"u">> ELSE <<c>>

RECURSIVE NormalizeAscii(_)
NormalizeAscii(s) ==
    IF s = <<>> THEN <<>> ELSE AsciiOf(Head(s)) \o NormalizeAscii(Tail(s))

\* os.path.sep and os.path.altsep, where there is one
PathSeps(os_name) == IF os_name = "nt" THEN {"\\", "/"} ELSE {"/"}

\* filename.replace(sep, ' ') for each separator
ReplaceSeps(s, os_name) ==
    [i \in 1..Len(s) |-> IF s[i] \in PathSeps(os_name) THEN " " ELSE s[i]]

\* The length of the word a string that starts with no whitespace starts with.
WordLen(s) ==
    IF \E i \in 1..Len(s) : s[i] \in Whitespace
    THEN (CHOOSE i \in 1..Len(s) :
              /\ s[i] \in Whitespace
              /\ \A j \in 1..(i - 1) : s[j] \notin Whitespace) - 1
    ELSE Len(s)

\* str.split()
RECURSIVE Split(_)
Split(s) ==
    IF s = <<>> THEN <<>>
    ELSE IF Head(s) \in Whitespace THEN Split(Tail(s))
    ELSE <<SubSeq(s, 1, WordLen(s))>>
         \o Split(SubSeq(s, WordLen(s) + 1, Len(s)))

\* '_'.join(words)
RECURSIVE JoinUnderscore(_)
JoinUnderscore(words) ==
    IF words = <<>> THEN <<>>
    ELSE IF Len(words) = 1 THEN words[1]
    ELSE words[1] \o <<"_">> \o JoinUnderscore(Tail(words))

\* _filename_ascii_strip_re.sub('', s)
AsciiStrip(s) == SelectSeq(s, LAMBDA c : c \in FilenameAscii)

\* s.strip('._')
RECURSIVE LStripDots(_)
LStripDots(s) ==
    IF s /= <<>> /\ Head(s) \in {".", "_"} THEN LStripDots(Tail(s)) ELSE s

RECURSIVE RStripDots(_)
RStripDots(s) ==
    IF s /= <<>> /\ s[Len(s)] \in {".", "_"}
    THEN RStripDots(SubSeq(s, 1, Len(s) - 1)) ELSE s

StripDots(s) == RStripDots(LStripDots(s))

\* The filename after the first statements of secure_filename.
Decoded(filename, kind) ==
    IF kind = "text" THEN NormalizeAscii(filename) ELSE filename

\* A sanitising that trims dots and underscores before it removes the
\* characters outside the class.
SanitisedTrimFirst(filename, kind, os_name) ==
    AsciiStrip(StripDots(JoinUnderscore(Split(
        ReplaceSeps(Decoded(filename, kind), os_name)))))

\* The filename before the test for device files.
Sanitised(filename, kind, os_name) ==
    StripDots(AsciiStrip(JoinUnderscore(Split(
        ReplaceSeps(Decoded(filename, kind), os_name)))))

\* s.split('.')[0]
UpToFirstDot(s) ==
    IF \E i \in 1..Len(s) : s[i] = "."
    THEN SubSeq(s, 1, (CHOOSE i \in 1..Len(s) :
                           s[i] = "." /\ \A j \in 1..(i - 1) : s[j] /= ".") - 1)
    ELSE s

\* A secure_filename that compares the whole name with the device files.
SecureFilenameWholeName(filename, kind, os_name) ==
    LET s == Sanitised(filename, kind, os_name)
    IN IF os_name = "nt" /\ s /= <<>> /\ StrUpper(s) \in _windows_device_files
       THEN <<"_">> \o s ELSE s

secure_filename(filename, kind, os_name) ==
    LET s == Sanitised(filename, kind, os_name)
    IN IF /\ os_name = "nt"
          /\ s /= <<>>
          /\ StrUpper(UpToFirstDot(s)) \in _windows_device_files
       THEN <<"_">> \o s ELSE s

SecureFilenameCall ==
    /\ call.fn = "secure_filename"
    /\ result = NoCall
    /\ result' = [kind |-> "return",
                  filename |-> secure_filename(call.filename, call.kind,
                                               call.os_name)]
    /\ UNCHANGED <<call, mapvars, respvars>>

\* The characters of the filenames enumerated in full.
FilenameChars == {"a", ".", "_", " ", "/", "\\", "<fc>"}

ShortFilenames == SeqsUpTo(FilenameChars, MaxFilenameLen)

\* 'My cool movie.mov' and '../../../etc/passwd'
DocFilenames ==
    {<<"M", "y", " ", "c", "o", "o", "l", " ", "m", "o", "v", "i", "e", ".",
       "m", "o", "v">>,
     <<".", ".", "/", ".", ".", "/", ".", ".", "/", "e", "t", "c", "/", "p",
       "a", "s", "s", "w", "d">>}

\* Names of device files and names close to them.
DeviceStems ==
    _windows_device_files
    \cup {<<"c", "o", "n">>, <<"N", "u", "l">>, <<"l", "p", "t", "3">>,
          <<"C", "O", "M", "5">>, <<"L", "P", "T", "4">>,
          <<"C", "O", "N", "S">>, <<"C", "O">>}

DeviceAffixes ==
    {<<>>, <<".">>, <<"_">>, <<"/">>, <<" ">>, <<".", "t", "x", "t">>,
     <<".", "a", ".", "b">>, <<"-", "1">>, <<"\\", "a">>}

DeviceFilenames ==
    {p \o s \o q : p \in {<<>>, <<".">>, <<"_">>, <<"/">>, <<"a", "/">>},
                   s \in DeviceStems, q \in DeviceAffixes}

Filenames == ShortFilenames \cup DocFilenames \cup DeviceFilenames

SecureFilenameCalls ==
    {[fn |-> "secure_filename", filename |-> f, kind |-> k, os_name |-> o] :
        f \in Filenames, k \in {"text", "bytes"}, o \in {"posix", "nt"}}

SpecSecureFilename == InitFn(SecureFilenameCalls) /\ [][SecureFilenameCall]_vars

(***************************************************************************)
(* werkzeug.utils.escape and unescape.  A text is a sequence of            *)
(* characters; "?" stands for every character that no case below names.    *)
(***************************************************************************)
\* s.replace(old, new), old one character
RECURSIVE Replace(_, _, _)
Replace(s, old, new) ==
    IF s = <<>> THEN <<>>
    ELSE (IF Head(s) = old THEN new ELSE <<Head(s)>>)
         \o Replace(Tail(s), old, new)

amp == <<"&", "a", "m", "p", ";">>

lt == <<"&", "l", "t", ";">>

gt == <<"&", "g", "t", ";">>

quot == <<"&", "q", "u", "o", "t", ";">>

\* An escape that replaces '&' last, after the entities are in the text.
EscapeAmpLast(s, kind) ==
    IF kind = "None" THEN <<>>
    ELSE IF kind = "html" THEN s
    ELSE Replace(Replace(Replace(Replace(s, "<", lt), ">", gt),
                         "\"", quot), "&", amp)

\* escape(s): s is None, an object with __html__ (s its rendering) or a
\* string
escape(s, kind) ==
    IF kind = "None" THEN <<>>
    ELSE IF kind = "html" THEN s
    ELSE Replace(Replace(Replace(Replace(s, "&", amp), "<", lt), ">", gt),
                 "\"", quot)

\* unichr(n)
Chr(n) ==
    CASE n = 34 -> "\""
      [] n = 35 -> "#"
      [] n = 38 -> "&"
      [] n = 39 -> "'"
      [] n = 51 -> "3"
      [] n = 56 -> "8"
      [] n = 59 -> ";"
      [] n = 60 -> "<"
      [] n = 62 -> ">"
      [] n = 97 -> "a"
      [] OTHER -> "?"

\* HTMLBuilder._entities: the code point of a named entity, 0 for a name
\* that is none
EntityCodepoint(name) ==
    CASE name = <<"a", "m", "p">> -> 38
      [] name = <<"l", "t">> -> 60
      [] name = <<"g", "t">> -> 62
      [] name = <<"q", "u", "o", "t">> -> 34
      [] name = <<"a", "p", "o", "s">> -> 39
      [] OTHER -> 0

DigitValue(c) ==
    CASE c = "0" -> 0 [] c = "1" -> 1 [] c = "2" -> 2 [] c = "3" -> 3
      [] c = "4" -> 4 [] c = "5" -> 5 [] c = "6" -> 6 [] c = "7" -> 7
      [] c = "8" -> 8 [] c = "9" -> 9 [] c = "a" -> 10 [] OTHER -> 99

\* int(digits, base), -1 for the ValueError of a text that is no number
RECURSIVE IntOf(_, _, _)
IntOf(digits, base, acc) ==
    IF digits = <<>> THEN acc
    ELSE IF DigitValue(Head(digits)) >= base THEN -1
    ELSE IntOf(Tail(digits), base, acc * base + DigitValue(Head(digits)))

ParseInt(digits, base) == IF digits = <<>> THEN -1 ELSE IntOf(digits, base, 0)

\* handle_match of unescape, given the name between '&' and ';'
handle_match(name) ==
    IF EntityCodepoint(name) /= 0 THEN <<Chr(EntityCodepoint(name))>>
    ELSE IF Len(name) >= 2 /\ name[1] = "#" /\ name[2] \in {"x", "X"}
    THEN IF ParseInt(SubSeq(name, 3, Len(name)), 16) >= 0
         THEN <<Chr(ParseInt(SubSeq(name, 3, Len(name)), 16))>> ELSE <<>>
    ELSE IF name[1] = "#"
    THEN IF ParseInt(Tail(name), 10) >= 0
         THEN <<Chr(ParseInt(Tail(name), 10))>> ELSE <<>>
    ELSE <<>>

\* The position of the first ';' of s after position i, 0 if there is none.
NextSemicolon(s, i) ==
    IF \E j \in (i + 1)..Len(s) : s[j] = ";"
    THEN CHOOSE j \in (i + 1)..Len(s) :
             s[j] = ";" /\ \A k \in (i + 1)..(j - 1) : s[k] /= ";"
    ELSE 0

\* _entity_re.sub(handle_match, s) from position i on: '&', one or more
\* characters that are no ';', and ';' are a match
RECURSIVE EntitySub(_, _)
EntitySub(s, i) ==
    IF i > Len(s) THEN <<>>
    ELSE IF s[i] = "&" /\ NextSemicolon(s, i) > i + 1
    THEN handle_match(SubSeq(s, i + 1, NextSemicolon(s, i) - 1))
         \o EntitySub(s, NextSemicolon(s, i) + 1)
    ELSE <<s[i]>> \o EntitySub(s, i + 1)

unescape(s) == EntitySub(s, 1)

EscapeCall ==
    /\ call.fn = "escape"
    /\ result = NoCall
    /\ result' = [op |-> "escaped", value |-> escape(call.s, call.kind)]
    /\ UNCHANGED <<call, mapvars, respvars>>

\* unescape of what escape returned
UnescapeCall ==
    /\ call.fn = "escape"
    /\ result /= NoCall
    /\ result.op = "escaped"
    /\ result' = [op |-> "unescaped", escaped |-> result.value,
                  value |-> unescape(result.value)]
    /\ UNCHANGED <<call, mapvars, respvars>>

EscapeChars == {"&", "<", ">", "\"", ";", "a", "#", "3"}

\* '<script>', '&amp;', '&#38;' and '&#x3a;'
DocTexts ==
    {<<"<", "s", "c", "r", "i", "p", "t", ">">>, amp,
     <<"&", "#", "3", "8", ";">>, <<"&", "#", "x", "3", "a", ";">>}

EscapeCalls ==
    {[fn |-> "escape", s |-> s, kind |-> "text"] :
        s \in SeqsUpTo(EscapeChars, MaxTextLen) \cup DocTexts}
    \cup {[fn |-> "escape", s |-> None, kind |-> "None"]}
    \cup {[fn |-> "escape", s |-> <<"<", "a", ">">>, kind |-> "html"]}

SpecEscape == InitFn(EscapeCalls) /\ [][EscapeCall \/ UnescapeCall]_vars

(***************************************************************************)
(* A Headers container on its own: built from a list of pairs as in        *)
(* test_header_set_duplication_bug, or empty, and then assigned by key.    *)
(***************************************************************************)
\* headers[key] = value
SetItem(key, value) ==
    /\ headers' = HSet(headers, key, value)
    /\ rlast' = [op |-> "setitem", key |-> key, value |-> value,
                 before |-> headers]
    /\ UNCHANGED <<response, status_code, direct_passthrough,
                   implicit_sequence_conversion,
                   automatically_set_content_length,
                   autocorrect_location_header, charset, _on_close, app_iter,
                   emitted, close_runs, close_events, app_iters, orig_body>>
    /\ UNCHANGED <<mapvars, fnvars>>

\* Headers([('Content-Type', 'text/html'), ('Foo', 'bar'), ('Blub', 'blah')])
TestHeaders ==
    <<<<"Content-Type", "text/html">>, <<"Foo", "bar">>, <<"Blub", "blah">>>>

HeaderKeys == {"Foo", "foo", "FOO", "Blub", "blub", "blafasel"}

HeaderValues == {"hehe", "humm"}

InitHeaders ==
    /\ InitNoMap
    /\ InitNoFn
    /\ InitResponseWith({EmptyTuple}, {200}, {<<>>, TestHeaders}, {"utf-8"},
                        {FALSE}, {TRUE}, {TRUE}, {TRUE})

NextHeaders == \E k \in HeaderKeys, v \in HeaderValues : SetItem(k, v)

SpecHeaders == InitHeaders /\ [][NextHeaders]_vars

(***************************************************************************)
(* MapAdapter.get_default_redirect.  match calls it, after self.update(),  *)
(* for the rule it matched, on a map with redirect_defaults set.           *)
(***************************************************************************)
\* Rule.provides_defaults_for(rule): a rule with defaults, for the same
\* endpoint and the same arguments as the other rule.
provides_defaults_for(r, rule) ==
    /\ DOMAIN Rules[r].defaults /= {}
    /\ Rules[r].endpoint = Rules[rule].endpoint
    /\ r /= rule
    /\ Rules[r].arguments = Rules[rule].arguments

QueryArgs == {"", "q=1"}

\* the URL of a redirect to the path a rule built: the suffix is the query
\* string, when there is one
make_redirect_url(path, query_args, domain_part) ==
    [kind |-> "redirect", domain_part |-> domain_part, path |-> path,
     suffix |-> IF query_args = "" THEN "" ELSE query_args]

\* for r in self.map._rules_by_endpoint[rule.endpoint], from position i
\* on: the value returned and the values dict as the call leaves it.
RECURSIVE DefaultRedirectFrom(_, _, _, _, _, _)
DefaultRedirectFrom(rules, rule, method, values, query_args, i) ==
    IF i > Len(rules) \/ rules[i] = rule
    THEN [rv |-> NoneResult, values |-> values]
    ELSE IF /\ provides_defaults_for(rules[i], rule)
            /\ suitable_for(rules[i], values, method)
         THEN LET merged == DictUpdate(values, Rules[rules[i]].defaults)
              IN  [rv |-> make_redirect_url(
                              RuleBuild(rules[i], merged, TRUE).path,
                              query_args, "")
                          @@ [rule |-> rules[i]],
                   values |-> merged]
         ELSE DefaultRedirectFrom(rules, rule, method, values, query_args,
                                  i + 1)

get_default_redirect(idx, rule, method, values, query_args) ==
    DefaultRedirectFrom(idx[Rules[rule].endpoint], rule, method, values,
                        query_args, 1)

\* The values match hands over: one for each argument of the matched rule.
MatchedValues(rule) == [Rules[rule].arguments -> {GoodValue, BadValue}]

GetDefaultRedirect(rule, method, values, query_args) ==
    /\ rule \in Range(_rules)
    /\ DoUpdate
    /\ last' = [op |-> "get_default_redirect", rule |-> rule,
                method |-> method, values |-> values,
                returned |-> get_default_redirect(UpdatedByEndpoint, rule,
                                                  method, values, query_args)]
    /\ UNCHANGED <<rule_map, default_method, add_raised, respvars, fnvars>>

NextDefaultRedirect ==
    \/ \E f \in Factories : Add(f)
    \/ Update
    \/ \E r \in RuleIds, m \in Methods, q \in QueryArgs :
          \E v \in MatchedValues(r) : GetDefaultRedirect(r, m, v, q)

SpecDefaultRedirect == Init /\ [][NextDefaultRedirect]_vars


(***************************************************************************)
(* Properties of the map.                                                  *)
(***************************************************************************)
BoundRules == {r \in RuleIds : rule_map[r] = "this"}

TablesSorted ==
    /\ IsSortedBy(_rules, MatchKeys)
    /\ \A e \in DOMAIN _rules_by_endpoint :
          IsSortedBy(_rules_by_endpoint[e], BuildKeys)

\* C1: as long as every Map.add call succeeded, a clean map (_remap false)
\* holds the full rule list ordered by match_compare_key and every
\* endpoint's list ordered by build_compare_key, and iter_rules and
\* is_endpoint_expecting (which update first, as build does) read lists so
\* ordered that hold every rule added.
C1_CleanMapIsSorted ==
    ~add_raised =>
        /\ ~_remap => (TablesSorted /\ Range(_rules) = BoundRules)
        /\ last.op \in {"iter_rules", "is_endpoint_expecting", "build"} =>
              (~_remap /\ TablesSorted)
        /\ (last.op = "iter_rules" /\ last.endpoint = "None") =>
              (IsSortedBy(last.result, MatchKeys)
               /\ Range(last.result) = BoundRules)
        /\ (last.op = "iter_rules" /\ last.endpoint /= "None") =>
              (IsSortedBy(last.result, BuildKeys)
               /\ Range(last.result) =
                     {r \in BoundRules : Rules[r].endpoint = last.endpoint})
        /\ last.op = "is_endpoint_expecting" =>
              (IsSortedBy(last.seen, BuildKeys)
               /\ Range(last.seen) =
                     {r \in BoundRules : Rules[r].endpoint = last.endpoint})

\* C1's case: rules 3, 2, 1 were added in an order that is neither the
\* match order nor the build order, and iter_rules read the sorted table.
C1_Witness ==
    /\ ~add_raised /\ ~_remap
    /\ last.op = "iter_rules" /\ last.endpoint = "None"
    /\ _rules = <<2, 1, 3>>
    /\ "e1" \in DOMAIN _rules_by_endpoint
    /\ _rules_by_endpoint["e1"] = <<2, 3, 1>>

\* The values of a build call without the entries that are None.
Supplied(values) ==
    [k \in {x \in DOMAIN values : values[x] /= NoValue} |-> values[k]]

\* Rule r gives a URL for the values and the method.
Yields(r, values, method) ==
    /\ suitable_for(r, values, method)
    /\ RuleBuild(r, values, TRUE).kind = "url"

EndpointRules(e) ==
    IF e \in DOMAIN _rules_by_endpoint THEN Range(_rules_by_endpoint[e]) ELSE {}

\* r is a first rule of its endpoint, in build-priority order, that gives a
\* URL for the values and the method: no rule that does has a smaller key.
FirstInBuildPriority(r, e, values, method) ==
    /\ r \in EndpointRules(e)
    /\ Yields(r, values, method)
    /\ \A q \in EndpointRules(e) :
          Yields(q, values, method) => BuildKeys[r] <= BuildKeys[q]

BuildSelection ==
    (last.op = "build" /\ last.method = "None") =>
        LET e == last.endpoint
            v == Supplied(last.values)
            byDefault == {r \in EndpointRules(e) : Yields(r, v, default_method)}
            byAny == {r \in EndpointRules(e) : Yields(r, v, "None")}
        IN  /\ last.result.kind = "BuildError" <=> byAny = {}
            /\ last.result.kind = "url" =>
                  /\ last.result = RuleBuild(last.result.rule, v, TRUE)
                  /\ IF byDefault /= {}
                     THEN FirstInBuildPriority(last.result.rule, e, v,
                                               default_method)
                     ELSE FirstInBuildPriority(last.result.rule, e, v, "None")

\* C2: build with no method returns the URL of the first rule of the
\* endpoint, in build-priority order, that is suitable for the values
\* (entries that are None dropped) and the default method and gives a URL;
\* with no such rule, of the first one suitable with the method absent; it
\* raises BuildError exactly when no rule of the endpoint gives a URL.
C2_BuildFirstInBuildPriority == BuildSelection

\* The same statement for maps on which no Map.add call has raised.
BuildSelectionAfterSuccessfulAdds == ~add_raised => BuildSelection

\* C3 as claimed: allowed_methods returns the union of the methods declared
\* by all rules matching the path, and the empty list exactly when no rule
\* matches the path.
PathRules(path) == {r \in Range(_rules) : path \in Rules[r].paths}

C3_AllowedIsUnionOfMatching ==
    last.op = "allowed_methods" =>
        /\ last.result = UNION {Rules[r].methods : r \in PathRules(last.path)}
        /\ last.result = {} <=> PathRules(last.path) = {}

\* C3 amended: allowed_methods returns the union of the methods declared by
\* the rules matching the path when every rule matching it declares methods
\* and no rule asks for a redirect on it; it returns the empty list when no
\* rule matches, when a rule matching the path declares no methods (the
\* match succeeds) and when the match raises a redirect.  With no rules the
\* match fails with not-found and the result is empty.
C3_AllowedMethods ==
    last.op = "allowed_methods" =>
        LET decided == {r \in Range(_rules) :
                           \/ last.path \in Rules[r].slash
                           \/ (last.path \in Rules[r].paths
                               /\ Rules[r].any_method)}
        IN  /\ last.result =
                  IF decided /= {} THEN {}
                  ELSE UNION {Rules[r].methods : r \in PathRules(last.path)}
            /\ last.outcome.kind = "MethodNotAllowed" =>
                  last.result = last.outcome.valid_methods
            /\ last.outcome.kind /= "MethodNotAllowed" => last.result = {}
            /\ _rules = <<>> =>
                  (last.outcome.kind = "NotFound" /\ last.result = {})

\* C3's case: three rules match "/x", each declaring methods.
C3_Witness ==
    /\ last.op = "allowed_methods" /\ last.path = "/x"
    /\ last.outcome.kind = "MethodNotAllowed"
    /\ last.result = {"GET", "POST", "PUT"}


(***************************************************************************)
(* Properties of the response.                                             *)
(***************************************************************************)
IsPrefix(a, b) == Len(a) <= Len(b) /\ a = SubSeq(b, 1, Len(a))

\* chunk e is what item x is on the wire under charset cs
IsEncodingOf(e, x, cs) ==
    /\ e.t = "bytes"
    /\ e.s = IF x.t = "text" THEN Encode(x.s, cs) ELSE x.s

\* es are the encodings of the items xs, one for one and in order
AreEncodingsOf(es, xs, cs) ==
    /\ Len(es) = Len(xs)
    /\ \A i \in 1..Len(xs) : IsEncodingOf(es[i], xs[i], cs)

BodyForbidden(method, status) ==
    method = "HEAD" \/ status \in 100..199 \/ status = 204 \/ status = 304

\* The last step closed the response or its application iterable.
EndedWithClose == rlast.op \in {"close", "app_iter_close"}

\* C4: a body with a close capability has had it invoked exactly once when
\* a sequence of make_sequence, freeze, get_app_iter, next and close
\* operations ends with the response or its application iterable closed.
C4_BodyClosedExactlyOnce ==
    (orig_body.has_close /\ EndedWithClose) => close_runs["body_close"] = 1

\* The last step consumed the application iterable to its end or closed it.
AppIterEnded ==
    \/ rlast.op = "app_iter_close"
    \/ rlast.op = "next" /\ ~rlast.item

\* What one close() of the response runs: the close of its body, when the
\* body has one, and every registered on-close callback.
ResponseCloseRuns ==
    /\ rlast.before.has_close => "body_close" \in Range(rlast.ran)
    /\ \A cb \in Range(_on_close) : cb \in Range(rlast.ran)

\* C5 as stated: for every status, method and direct_passthrough setting,
\* consuming the iterable of get_app_iter to its end or closing it runs the
\* response's close(): the body's close and every on-close callback.
C5_AppIterAlwaysClosesResponse == AppIterEnded => ResponseCloseRuns

\* C5: when get_app_iter returned its closing iterator (method HEAD, status
\* 100-199, 204 or 304, or direct_passthrough off), consuming it to its end
\* or closing it runs the response's close(): the body's close and every
\* on-close callback.
C5_ClosingIteratorClosesResponse ==
    (AppIterEnded /\ app_iter.kind = "ClosingIterator") => ResponseCloseRuns

C5_Witness ==
    /\ rlast.op = "next" /\ ~rlast.item
    /\ app_iter.kind = "ClosingIterator"
    /\ direct_passthrough
    /\ rlast.before.has_close
    /\ Len(_on_close) = 2
    /\ Len(rlast.ran) = 3

\* C6: get_app_iter yields nothing for HEAD and for status 100-199, 204 and
\* 304, direct passthrough included; otherwise it is the raw body itself in
\* direct passthrough, and yields the charset-encoded chunks of the body in
\* order when not.
C6_AppIterBody ==
    app_iter.kind /= "none" =>
        LET served == app_iter.body
            whole == app_iter.state = "exhausted"
                     /\ (served.kind /= "iter" \/ response.kind = "iter")
        IN  /\ rlast.op = "get_app_iter" =>
                  IF BodyForbidden(rlast.environ.REQUEST_METHOD, status_code)
                  THEN served.chunks = <<>>
                  ELSE served = rlast.before
            /\ IF BodyForbidden(app_iter.environ.REQUEST_METHOD, status_code)
               THEN emitted = <<>>
               ELSE IF direct_passthrough
               THEN /\ app_iter.kind = "raw"
                    /\ IsPrefix(emitted, served.chunks)
                    /\ whole => emitted = served.chunks
               ELSE /\ Len(emitted) <= Len(served.chunks)
                    /\ AreEncodingsOf(emitted,
                                      SubSeq(served.chunks, 1, Len(emitted)),
                                      charset)
                    /\ whole => Len(emitted) = Len(served.chunks)

C6_Witness ==
    /\ direct_passthrough
    /\ status_code = 304
    /\ app_iter.environ.REQUEST_METHOD = "GET"
    /\ app_iter.state = "exhausted"
    /\ response.kind = "list"
    /\ Len(response.chunks) = 2
    /\ emitted = <<>>

\* The entries of header list h under a name.
ValuesOf(h, ikey) ==
    {h[i][2] : i \in {j \in 1..Len(h) : Lower(h[j][1]) = ikey}}

CountOf(h, ikey) == Cardinality({j \in 1..Len(h) : Lower(h[j][1]) = ikey})

\* C7: in the result of get_wsgi_headers Content-Length is "0" for status
\* 100-199 and 204 whatever the response's headers and body are; for 304 no
\* entity header is in the result, a Content-Length included.
C7_StatusHeaders ==
    rlast.op = "get_wsgi_headers" =>
        /\ (status_code \in 100..199 \/ status_code = 204) =>
              /\ CountOf(rlast.result, "content-length") = 1
              /\ ValuesOf(rlast.result, "content-length") = {"0"}
        /\ status_code = 304 =>
              \A i \in 1..Len(rlast.result) :
                  Lower(rlast.result[i][1]) \notin EntityHeaders

C7_Witness ==
    /\ rlast.op = "get_wsgi_headers"
    /\ status_code = 304
    /\ HasHeader(headers, "Content-Type")
    /\ HasHeader(headers, "Expires")
    /\ is_sequence(response)
    /\ automatically_set_content_length
    /\ Len(rlast.result) = 1

\* The number of bytes get_app_iter emits for the body: the summed length
\* of its chunks as encoded with the response's charset.
EmittedBytes(b, cs) ==
    SumLen([i \in 1..Len(b.chunks) |->
               IF b.chunks[i].t = "text"
               THEN Bytes(Encode(b.chunks[i].s, cs)) ELSE b.chunks[i]])

\* C8: with automatic length on, a list or tuple body, no Content-Length
\* header and a status other than 304, 204 and 1xx, get_wsgi_headers sets
\* Content-Length to the number of bytes get_app_iter emits for the body; a
\* chunk that is not ASCII-encodable leaves Content-Length out; an explicit
\* Content-Length is never overwritten by the computed one.
C8_AutomaticContentLength ==
    (/\ rlast.op = "get_wsgi_headers"
     /\ automatically_set_content_length
     /\ is_sequence(response)
     /\ ~BodyForbidden("GET", status_code)) =>
        IF HasHeader(headers, "Content-Length")
        THEN ValuesOf(rlast.result, "content-length")
                 = ValuesOf(headers, "content-length")
        ELSE IF ToBytesAsciiRaises(response.chunks)
        THEN ~HasHeader(rlast.result, "Content-Length")
        ELSE ValuesOf(rlast.result, "content-length")
                 = {str(EmittedBytes(response, charset))}

\* C9: is_sequence holds exactly for a list or tuple body and is_streamed
\* exactly for a body without a length; a one-shot iterator stays streamed
\* and no sequence until make_sequence (or freeze or _ensure_sequence)
\* buffers it; after make_sequence the body is a sequence, not streamed, and
\* holds the encoded chunks of the iterator in order; a buffered body stays
\* buffered.
C9_AfterMakeSequence ==
    rlast.op = "make_sequence" =>
        /\ is_sequence(response) /\ ~is_streamed(response)
        /\ ~is_sequence(rlast.before) =>
              AreEncodingsOf(response.chunks, rlast.before.chunks, charset)
        /\ is_sequence(rlast.before) => response = rlast.before

C9_Kinds ==
    /\ is_sequence(response) <=> response.kind \in {"list", "tuple"}
    /\ is_streamed(response) <=> response.kind = "iter"

C9_Step ==
    /\ (is_streamed(response)
        /\ rlast'.op \notin {"make_sequence", "freeze", "_ensure_sequence"})
           => (is_streamed(response') /\ ~is_sequence(response'))
    /\ is_sequence(response) =>
           (is_sequence(response') /\ ~is_streamed(response'))

C9_SequenceAndStreamed ==
    [](C9_Kinds /\ C9_AfterMakeSequence) /\ [][C9_Step]_vars

C9_Witness ==
    /\ rlast.op = "make_sequence"
    /\ rlast.before.kind = "iter"
    /\ Len(rlast.before.chunks) = 2
    /\ response.chunks[1] = Bytes(<<195, 169, 97>>)
    /\ emitted = <<>>

\* C10: after freeze, whatever the body and the direct_passthrough and
\* implicit_sequence_conversion flags, the body is a list of the encoded
\* chunks in the original order and the response has one Content-Length
\* header, the sum of the chunks' byte lengths, in place of any set before.
C10_Frozen ==
    rlast.op = "freeze" =>
        /\ response.kind = "list"
        /\ AreEncodingsOf(response.chunks, rlast.before.chunks, charset)
        /\ CountOf(headers, "content-length") = 1
        /\ ValuesOf(headers, "content-length") = {str(SumLen(response.chunks))}

C10_Witness ==
    /\ rlast.op = "freeze"
    /\ rlast.before.kind = "iter"
    /\ Len(rlast.before.chunks) = 2
    /\ HasHeader(rlast.headers, "Content-Length")
    /\ direct_passthrough
    /\ ~implicit_sequence_conversion
    /\ charset = "utf-16"

\* C11: close() first invokes the close of the current body, when it has
\* one, and then every registered on-close callback once each, in the order
\* of registration; call_on_close registers at the end of that order.
C11_CloseOrder ==
    /\ rlast.op = "call_on_close" => _on_close[Len(_on_close)] = rlast.func
    /\ rlast.op = "close" =>
          LET k == IF response.has_close THEN 1 ELSE 0
          IN  /\ Len(rlast.ran) = k + Len(_on_close)
              /\ k = 1 => rlast.ran[1] = "body_close"
              /\ \A i \in 1..Len(_on_close) : rlast.ran[k + i] = _on_close[i]

C11_Witness ==
    /\ rlast.op = "close"
    /\ response.has_close
    /\ rlast.ran = <<"body_close", "cb2", "cb1">>

(***************************************************************************)
(* Properties of the exceptions.                                           *)
(***************************************************************************)
\* The globals scanned so far that have a code.
ScannedWithCode == {o \in call.scanned : o.has_code}

\* C13: in default_exceptions every key is the code of the class it maps
\* to; every class scanned with a code is found under its code unless
\* another scanned class of the same code took its place; the export list
\* has gained one name for every class scanned with a code.
C13_Registry ==
    LET de == result.default_exceptions
    IN  /\ \A k \in DOMAIN de : de[k].has_code /\ de[k].code = k
        /\ \A o \in ScannedWithCode :
              /\ o.code \in DOMAIN de
              /\ \/ de[o.code] = o
                 \/ \E p \in ScannedWithCode \ {o} :
                        p.code = o.code /\ de[o.code] = p
        /\ Len(result.all) = 1 + Cardinality(ScannedWithCode)
        /\ \A o \in ScannedWithCode : o.name \in Range(result.all)
        /\ Range(result.all) \subseteq {"HTTPException"} \cup
                                       {o.name : o \in ScannedWithCode}

C13_Witness ==
    /\ call.fn = "_find_exceptions"
    /\ call.scanned = Globals
    /\ result.default_exceptions[400] = BadRequest
    /\ DOMAIN result.default_exceptions = {400, 404, 405}
    /\ Len(result.all) = 5

\* The call is the pass-through of a lone non-integer argument.
LoneNonInteger ==
    call.args = <<>> /\ DOMAIN call.kwargs = {} /\ call.code.t /= "int"

\* The exception raised is an instance of the class mapped to the code,
\* built from the call's other arguments.
RaisesMappedClass ==
    /\ result.raised.exc = "instance"
    /\ result.raised.instance.cls = call.mapping[call.code].name
    /\ LET ps == Params(call.mapping[call.code])
           fs == result.raised.instance.fields
       IN  /\ Len(call.args) <= Len(ps)
           /\ \A i \in 1..Len(call.args) : fs[ps[i]] = call.args[i]
           /\ DOMAIN call.kwargs \subseteq Range(ps)
           /\ \A k \in DOMAIN call.kwargs : fs[k] = call.kwargs[k]

\* The class cannot be called with the call's other arguments: too many
\* positionals, a keyword it has not, or a keyword it was given by position.
RejectedByConstructor ==
    LET ps == Params(call.mapping[call.code])
    IN  \/ Len(call.args) > Len(ps)
        \/ ~(DOMAIN call.kwargs \subseteq Range(ps))
        \/ \E i \in 1..Len(call.args) : ps[i] \in DOMAIN call.kwargs

\* C12 as stated: every call of an Aborter raises; a lone non-integer
\* argument is raised as the response of a generic HTTPException; otherwise
\* a code of the mapping raises its class built from the other arguments,
\* and a code not in the mapping raises LookupError.
C12_AborterRaisesMapped ==
    (call.fn = "Aborter.__call__" /\ result /= NoCall) =>
        /\ result.op = "raised"
        /\ IF LoneNonInteger
           THEN result.raised = [exc |-> "HTTPException", response |-> call.code]
           ELSE IF call.code \in DOMAIN call.mapping
           THEN RaisesMappedClass
           ELSE result.raised.exc = "LookupError"

\* C12: every call of an Aborter raises; a lone non-integer argument is
\* raised as the response of a generic HTTPException; otherwise a code of
\* the mapping raises its class built from the other arguments when the
\* class's constructor takes them and the constructor's TypeError when it
\* does not, and a code not in the mapping raises LookupError naming it.
C12_AborterRaises ==
    (call.fn = "Aborter.__call__" /\ result /= NoCall) =>
        /\ result.op = "raised"
        /\ IF LoneNonInteger
           THEN result.raised = [exc |-> "HTTPException", response |-> call.code]
           ELSE IF call.code \in DOMAIN call.mapping
           THEN IF RejectedByConstructor
                THEN result.raised.exc = "TypeError"
                ELSE RaisesMappedClass
           ELSE /\ result.raised.exc = "LookupError"
                /\ result.raised.message = <<"no exception for", call.code>>

C12_Witness ==
    /\ call.fn = "Aborter.__call__"
    /\ result /= NoCall
    /\ call.code = IntCode(405)
    /\ call.args = <<"a1">>
    /\ DOMAIN call.kwargs = {"description"}
    /\ result.raised.exc = "instance"
    /\ result.raised.instance.cls = "MethodNotAllowed"

(***************************************************************************)
(* Properties of the adapter.                                              *)
(***************************************************************************)
\* The rules of the map that take the path with the method.
RulesTaking(path, method) ==
    {r \in Range(_rules) :
        /\ path \in Rules[r].paths
        /\ Rules[r].any_method \/ method \in Rules[r].methods}

\* C14: test returns true exactly when match succeeds or raises a redirect
\* and false exactly when match raises not-found or method-not-allowed; it
\* always returns a truth value.
C14_Test ==
    last.op = "test" =>
        /\ last.result \in BOOLEAN
        /\ last.result <=> last.outcome.kind \in {"match", "RequestRedirect"}
        /\ ~last.result <=> last.outcome.kind \in {"NotFound", "MethodNotAllowed"}
        /\ last.outcome.kind = "match" =>
              last.outcome.rule \in RulesTaking(last.path, MatchMethod(last.method))
        /\ last.outcome.kind = "NotFound" =>
              \A r \in Range(_rules) : last.path \notin Rules[r].paths

C14_Witness ==
    /\ last.op = "test"
    /\ last.outcome.kind = "RequestRedirect"
    /\ last.result
    /\ last.method = "None"

\* What bind makes of its inputs, apart from the subdomain.
BoundNames ==
    /\ result.rv.kind = "MapAdapter"
    /\ result.rv.server_name = _encode_idna(StrLower(call.server_name))
    /\ result.rv.script_name /= <<>>
    /\ result.rv.script_name[Len(result.rv.script_name)] = "/"
    /\ call.script_name = None => result.rv.script_name = <<"/">>
    /\ call.script_name /= None =>
          result.rv.script_name \in
              {call.script_name, Append(call.script_name, "/")}

HasScheme(u) ==
    \E i \in 1..(Len(u) - 2) : u[i] = ":" /\ u[i + 1] = "/" /\ u[i + 2] = "/"

\* The rule built is of the adapter's own host or subdomain.
SameDomain ==
    IF call.host_matching
    THEN get_host(call.adapter, TRUE, call.domain_part) = call.adapter.server_name
    ELSE call.domain_part = call.adapter.subdomain

\* The host a domain part stands for: the host itself under host matching,
\* else the subdomain, when there is one, in front of the server name.
HostOf(domain_part) ==
    IF call.host_matching THEN domain_part
    ELSE IF domain_part = <<>> THEN call.adapter.server_name
    ELSE domain_part \o <<".">> \o call.adapter.server_name

\* C16: build returns a script-relative path, without scheme and host,
\* exactly when force_external is false and the rule built is of the
\* adapter's own host (host matching) or subdomain (otherwise); in every
\* other case it returns '<scheme>://<host><script path>/<path>' with the
\* host that get_host gives for the rule's domain part.
C16_BuildUrl ==
    (call.fn = "MapAdapter.build" /\ result /= NoCall) =>
        LET path == LStripSlash(call.path)
            script == call.adapter.script_name
        IN  /\ ~HasScheme(result.rv) <=> (~call.force_external /\ SameDomain)
            /\ ~HasScheme(result.rv) => result.rv = script \o path
            /\ HasScheme(result.rv) =>
                  result.rv = <<"h", "t", "t", "p", ":", "/", "/">>
                              \o HostOf(call.domain_part)
                              \o SubSeq(script, 1, Len(script) - 1)
                              \o <<"/">> \o path
            /\ path = <<>> \/ path[1] /= "/"

C16_Witness ==
    /\ call.fn = "MapAdapter.build"
    /\ result /= NoCall
    /\ ~call.force_external
    /\ ~call.host_matching
    /\ call.domain_part = <<"w">>
    /\ call.adapter.subdomain = <<>>
    /\ result.rv = <<"h", "t", "t", "p", ":", "/", "/", "w", ".", "e", "x",
                     "/", "a", "/", "p", "/", "q">>

(***************************************************************************)
(* Properties of validate_arguments and bind_arguments.                    *)
(***************************************************************************)
\* Two dicts with the same keys and values.
DictEq(d, e) == DOMAIN d = DOMAIN e /\ \A k \in DOMAIN d : d[k] = e[k]

\* Two returned (args, kwargs) that are equal.
SameReturn(r, s) ==
    /\ r.kind = "return" /\ s.kind = "return"
    /\ r.args = s.args
    /\ DictEq(r.kwargs, s.kwargs)

\* The positions of the declared parameters of a call's function.
Declared(c) == 1..Len(c.func.params)

\* The declared parameters a call fills neither positionally, by keyword
\* nor by a default.
Unfilled(c) ==
    {c.func.params[i].name : i \in
        {j \in Declared(c) : /\ j > Len(c.args)
                             /\ c.func.params[j].name \notin DOMAIN c.kwargs
                             /\ ~c.func.params[j].has_default}}

\* The keywords of a call its function cannot take: those naming a parameter
\* the call fills positionally and, without a keyword capture, those naming
\* no parameter.
SurplusKeywords(c) ==
    Restrict(c.kwargs,
        {k \in DOMAIN c.kwargs :
            \/ \E i \in Declared(c) :
                   i <= Len(c.args) /\ c.func.params[i].name = k
            \/ /\ c.func.kwarg_var = None
               /\ \A i \in Declared(c) : c.func.params[i].name /= k})

\* The positional values of a call beyond the declared parameters.
BeyondDeclared(c) ==
    [i \in 1..(IF Len(c.args) > Len(c.func.params)
               THEN Len(c.args) - Len(c.func.params) ELSE 0) |->
        c.args[Len(c.func.params) + i]]

\* The positional values of a call its function cannot take.
SurplusPositionals(c) ==
    IF c.func.vararg_var = None THEN BeyondDeclared(c) ELSE <<>>

\* The value a call gives the i-th declared parameter.
Given(c, i) ==
    IF i <= Len(c.args) THEN c.args[i]
    ELSE IF c.func.params[i].name \in DOMAIN c.kwargs
    THEN c.kwargs[c.func.params[i].name]
    ELSE c.func.params[i].default

\* The values the function accepts from a call, in positional order, and
\* the keywords its keyword capture takes.
AcceptedArgs(c) ==
    [i \in Declared(c) |-> Given(c, i)]
    \o (IF c.func.vararg_var = None THEN <<>> ELSE BeyondDeclared(c))

AcceptedKwargs(c) ==
    IF c.func.kwarg_var = None THEN EmptyDict
    ELSE Restrict(c.kwargs,
             {k \in DOMAIN c.kwargs :
                 \A i \in Declared(c) : c.func.params[i].name /= k})

\* Calls of validate_arguments that come back with a result.
Returns(c) ==
    Unfilled(c) = {}
    /\ (c.drop_extra \/ (DOMAIN SurplusKeywords(c) = {} /\ SurplusPositionals(c) = <<>>))

\* Two calls of one function that bind the same values.
BindSame(c, d) ==
    /\ c.func = d.func
    /\ Returns(c) /\ Returns(d)
    /\ AcceptedArgs(c) = AcceptedArgs(d)
    /\ DictEq(AcceptedKwargs(c), AcceptedKwargs(d))

\* C17: validate_arguments raises ArgumentValidationError naming the missing
\* parameters whenever a required parameter is filled neither positionally,
\* by keyword nor by a default, whatever drop_extra is; with nothing missing
\* and drop_extra false it raises ArgumentValidationError carrying the
\* surplus keyword and positional values if there are any; otherwise it
\* returns (args, kwargs) holding exactly the values the function accepts,
\* in positional order, surplus values dropped, and calls that bind the same
\* values yield equal results.
C17_ValidateArguments ==
    (call.fn = "validate_arguments" /\ result /= NoCall) =>
        IF Unfilled(call) /= {}
        THEN /\ result.kind = "ArgumentValidationError"
             /\ result.missing = Unfilled(call)
        ELSE IF /\ ~call.drop_extra
                /\ \/ DOMAIN SurplusKeywords(call) /= {}
                   \/ SurplusPositionals(call) /= <<>>
        THEN /\ result.kind = "ArgumentValidationError"
             /\ result.missing = {}
             /\ DictEq(result.extra, SurplusKeywords(call))
             /\ result.extra_positional = SurplusPositionals(call)
        ELSE /\ result.kind = "return"
             /\ result.args = AcceptedArgs(call)
             /\ DictEq(result.kwargs, AcceptedKwargs(call))
             /\ \A d \in ValidateArgumentsCalls :
                    BindSame(call, d) =>
                        SameReturn(validate_arguments(d.func, d.args,
                                                      d.kwargs,
                                                      d.drop_extra), result)

\* validate_arguments(take_two, (1,), {'b': 2}) has returned ((1, 2), {}),
\* as validate_arguments(take_two, (1, 2), {}) does.
C17_Witness ==
    /\ call.fn = "validate_arguments"
    /\ call.func = take_two
    /\ call.args = <<1>>
    /\ call.kwargs = [k \in {"b"} |-> 2]
    /\ result /= NoCall
    /\ result.kind = "return"
    /\ result.args = <<1, 2>>
    /\ DOMAIN result.kwargs = {}
    /\ SameReturn(validate_arguments(take_two, <<1, 2>>, EmptyDict, TRUE),
                  result)

\* A keyword of the call names a parameter the call binds positionally.
DuplicateKeyword(c) ==
    \E i \in Declared(c) :
        i <= Len(c.args) /\ c.func.params[i].name \in DOMAIN c.kwargs

\* A keyword of the call names no declared parameter.
UnexpectedKeyword(c) ==
    \E k \in DOMAIN c.kwargs : \A i \in Declared(c) : c.func.params[i].name /= k

\* The keywords of a call that name no declared parameter.
BeyondDeclaredKeywords(c) ==
    Restrict(c.kwargs,
        {k \in DOMAIN c.kwargs :
            \A i \in Declared(c) : c.func.params[i].name /= k})

\* C18: bind_arguments fails with a TypeError on a duplicate keyword, on an
\* unexpected keyword when the function declares no keyword capture, and on
\* surplus positional values when it declares no positional capture; in
\* every other case it returns a mapping that binds each declared parameter
\* name the call gives a value to that value, the positional capture name to the
\* tuple of surplus positionals and the keyword capture name to the surplus
\* keywords.
C18_BindArguments ==
    (call.fn = "bind_arguments" /\ result /= NoCall) =>
        IF \/ DuplicateKeyword(call)
           \/ UnexpectedKeyword(call) /\ call.func.kwarg_var = None
           \/ BeyondDeclared(call) /= <<>> /\ call.func.vararg_var = None
        THEN result.kind = "TypeError"
        ELSE /\ result.kind = "return"
             /\ \A i \in Declared(call) :
                    call.func.params[i].name \notin Unfilled(call) =>
                        /\ call.func.params[i].name \in DOMAIN result.values
                        /\ result.values[call.func.params[i].name]
                               = Given(call, i)
             /\ call.func.vararg_var /= None =>
                    result.values[call.func.vararg_var[1]]
                        = BeyondDeclared(call)
             /\ call.func.kwarg_var /= None =>
                    DictEq(result.values[call.func.kwarg_var[1]],
                           BeyondDeclaredKeywords(call))

(***************************************************************************)
(* Properties of secure_filename.                                          *)
(***************************************************************************)
\* Whitespace and the path separators of the system.
IsGap(ch, os_name) == ch \in Whitespace \cup PathSeps(os_name)

\* What the i-th character of s leaves behind: a character of the class
\* itself, the first character of a run of gaps that has other characters
\* on both sides an underscore, every other character nothing.
Left(s, os_name, i) ==
    IF IsGap(s[i], os_name)
    THEN IF /\ i > 1 /\ ~IsGap(s[i - 1], os_name)
            /\ \E j \in (i + 1)..Len(s) : ~IsGap(s[j], os_name)
         THEN <<"_">> ELSE <<>>
    ELSE IF s[i] \in FilenameAscii THEN <<s[i]>> ELSE <<>>

RECURSIVE Collapsed(_, _, _)
Collapsed(s, os_name, i) ==
    IF i > Len(s) THEN <<>>
    ELSE Left(s, os_name, i) \o Collapsed(s, os_name, i + 1)

\* s without the dots and underscores at its two ends.
Inner(s) ==
    LET kept == {i \in 1..Len(s) : s[i] \notin {".", "_"}}
    IN IF kept = {} THEN <<>>
       ELSE SubSeq(s, CHOOSE i \in kept : \A j \in kept : i <= j,
                   CHOOSE i \in kept : \A j \in kept : i >= j)

\* The name is a device file's up to its first dot, in any case.
IsDeviceName(s) == StrUpper(UpToFirstDot(s)) \in _windows_device_files

\* The returned name without the underscore put before a device name.
Unprefixed(r) ==
    IF r /= <<>> /\ r[1] = "_" /\ IsDeviceName(Tail(r)) THEN Tail(r) ELSE r

My_cool_movie ==
    <<"M", "y", "_", "c", "o", "o", "l", "_", "m", "o", "v", "i", "e", ".",
      "m", "o", "v">>

etc_passwd == <<"e", "t", "c", "_", "p", "a", "s", "s", "w", "d">>

\* C19: for every filename secure_filename returns a string made only of
\* characters in [A-Za-z0-9_.-], so without path separator or whitespace,
\* that neither begins nor ends with '.' or '_' (apart from the underscore
\* put before a device name); each run of whitespace or path separators
\* between kept characters has become one underscore; 'My cool movie.mov'
\* gives 'My_cool_movie.mov' and '../../../etc/passwd' gives 'etc_passwd'.
C19_SecureFilename ==
    (call.fn = "secure_filename" /\ result /= NoCall) =>
        LET r == result.filename
            body == Unprefixed(r)
        IN /\ \A i \in 1..Len(r) :
                  /\ r[i] \in FilenameAscii
                  /\ r[i] \notin Whitespace \cup {"/", "\\"}
           /\ body /= <<>> =>
                  /\ body[1] \notin {".", "_"}
                  /\ body[Len(body)] \notin {".", "_"}
           /\ body = Inner(Collapsed(Decoded(call.filename, call.kind),
                                     call.os_name, 1))
           /\ call.filename \in DocFilenames =>
                  IF Head(call.filename) = "M" THEN r = My_cool_movie
                  ELSE r = etc_passwd

\* secure_filename('../../../etc/passwd') has returned 'etc_passwd'.
C19_Witness ==
    /\ call.fn = "secure_filename"
    /\ call.filename \in DocFilenames
    /\ Head(call.filename) = "."
    /\ result /= NoCall
    /\ result.filename = etc_passwd

\* secure_filename has returned the empty name for a filename that is not
\* empty.
C19_WitnessEmpty ==
    /\ call.fn = "secure_filename"
    /\ call.filename /= <<>>
    /\ result /= NoCall
    /\ result.filename = <<>>

\* The sanitised form of the filename of a call.
SanitisedForm(c) ==
    Inner(Collapsed(Decoded(c.filename, c.kind), c.os_name, 1))

\* C20 as stated: for every filename whose sanitised form is a device name
\* up to its first dot, in any case, secure_filename returns the sanitised
\* form with an underscore before it, so the returned name is never a device
\* name.
C20_DeviceNamesPrefixed ==
    (call.fn = "secure_filename" /\ result /= NoCall) =>
        /\ IsDeviceName(SanitisedForm(call)) =>
               result.filename = <<"_">> \o SanitisedForm(call)
        /\ ~IsDeviceName(result.filename)

\* C20: where os.name is 'nt', for every filename whose sanitised form is a
\* device name up to its first dot, in any case, secure_filename returns the
\* sanitised form with an underscore before it, so the returned name is
\* never a device name; on every other system it returns the sanitised form
\* as it is.
C20_DeviceNamesPrefixedOnNt ==
    (call.fn = "secure_filename" /\ result /= NoCall) =>
        IF call.os_name = "nt"
        THEN /\ IsDeviceName(SanitisedForm(call)) =>
                    result.filename = <<"_">> \o SanitisedForm(call)
             /\ ~IsDeviceName(result.filename)
        ELSE result.filename = SanitisedForm(call)

\* On nt a name with an extension after a device name in lower case has come
\* back with the underscore before it.
C20_Witness ==
    /\ call.fn = "secure_filename"
    /\ call.os_name = "nt"
    /\ result /= NoCall
    /\ Len(result.filename) > 4
    /\ result.filename[1] = "_"
    /\ SubSeq(result.filename, 2, 5) = <<"c", "o", "n", ".">>
    /\ IsDeviceName(SanitisedForm(call))

(***************************************************************************)
(* Properties of escape and unescape.                                      *)
(***************************************************************************)
\* An entity escape produces starts at position i of e.
EntityAt(e, i) ==
    \E ent \in {amp, lt, gt, quot} :
        i + Len(ent) - 1 <= Len(e) /\ SubSeq(e, i, i + Len(ent) - 1) = ent

\* C21: for every text s, unescape(escape(s)) equals s, and escape(s) holds
\* none of '<', '>' and '"' and no '&' other than the one that starts an
\* entity escape produced; escape(None) is the empty string.
C21_EscapeRoundTrip ==
    (call.fn = "escape" /\ result /= NoCall) =>
        /\ (call.kind = "text" /\ result.op = "escaped") =>
               \A i \in 1..Len(result.value) :
                   /\ result.value[i] \notin {"<", ">", "\""}
                   /\ result.value[i] = "&" => EntityAt(result.value, i)
        /\ (call.kind = "text" /\ result.op = "unescaped") =>
               result.value = call.s
        /\ call.kind = "None" =>
               (IF result.op = "escaped" THEN result.value
                ELSE result.escaped) = <<>>

\* '&#38;' has been escaped to '&amp;#38;' and unescaped to '&#38;' again.
C21_Witness ==
    /\ call.fn = "escape"
    /\ call.kind = "text"
    /\ call.s = <<"&", "#", "3", "8", ";">>
    /\ result /= NoCall
    /\ result.op = "unescaped"
    /\ result.escaped = amp \o <<"#", "3", "8", ";">>
    /\ result.value = call.s

(***************************************************************************)
(* Properties of the Headers container.                                    *)
(***************************************************************************)
\* The positions of h whose name is key, up to letter case.
Named(h, key) == {i \in 1..Len(h) : Lower(h[i][1]) = Lower(key)}

\* C22: assigning a header by key when one of that name, in any letter case,
\* exists replaces that entry where it is with the new spelling and value
\* and leaves the number and order of the other entries as they were;
\* assigning a name that is not there appends one entry at the end; and no
\* two entries ever have names equal up to letter case.
C22_SetItem ==
    /\ \A i, j \in 1..Len(headers) :
           Lower(headers[i][1]) = Lower(headers[j][1]) => i = j
    /\ rlast.op = "setitem" =>
           IF Named(rlast.before, rlast.key) /= {}
           THEN /\ Len(headers) = Len(rlast.before)
                /\ \A i \in 1..Len(headers) :
                       headers[i] = IF i \in Named(rlast.before, rlast.key)
                                    THEN <<rlast.key, rlast.value>>
                                    ELSE rlast.before[i]
           ELSE headers = Append(rlast.before, <<rlast.key, rlast.value>>)

\* The container of the test after headers['blub'] = 'hehe' and
\* headers['blafasel'] = 'humm'.
C22_Witness ==
    /\ rlast.op = "setitem"
    /\ rlast.key = "blafasel"
    /\ headers = <<<<"Content-Type", "text/html">>, <<"Foo", "bar">>,
                   <<"blub", "hehe">>, <<"blafasel", "humm">>>>

\* _ensure_sequence has to refuse: the body it found is no list or tuple and
\* the response is in direct passthrough mode or may not convert implicitly.
MustRefuse ==
    ~is_sequence(rlast.before)
    /\ (direct_passthrough \/ ~implicit_sequence_conversion)

\* C23 as stated: _ensure_sequence, called while the body is no list or
\* tuple, raises and leaves the body as it was when the response is in
\* direct passthrough mode or implicit conversion is off; in every other
\* case it returns with is_sequence true, and when mutable is requested the
\* body is a list holding the same chunks in the same order.
C23_EnsureSequenceSameChunks ==
    rlast.op = "_ensure_sequence" =>
        IF MustRefuse
        THEN rlast.raised /\ response = rlast.before
        ELSE /\ ~rlast.raised
             /\ is_sequence(response)
             /\ rlast.mutable =>
                    /\ response.kind = "list"
                    /\ response.chunks = rlast.before.chunks

\* C23: as above, the list holding the same chunks in the same order when
\* the body was a list or tuple, and their encodings under the response's
\* charset, one for one and in order, when it was not.
C23_EnsureSequence ==
    rlast.op = "_ensure_sequence" =>
        IF MustRefuse
        THEN rlast.raised /\ response = rlast.before
        ELSE /\ ~rlast.raised
             /\ is_sequence(response)
             /\ rlast.mutable =>
                    /\ response.kind = "list"
                    /\ IF is_sequence(rlast.before)
                       THEN response.chunks = rlast.before.chunks
                       ELSE AreEncodingsOf(response.chunks,
                                           rlast.before.chunks, charset)

\* _ensure_sequence(mutable=True) has made a list of a tuple body that holds
\* a text chunk, which it has left a text.
C23_Witness ==
    /\ rlast.op = "_ensure_sequence"
    /\ rlast.mutable
    /\ rlast.before.kind = "tuple"
    /\ response.kind = "list"
    /\ Len(response.chunks) = 2
    /\ response.chunks[1].t = "text"

\* _ensure_sequence has refused an iterator that has items to yield, which
\* it still has.
C23_WitnessRefused ==
    /\ rlast.op = "_ensure_sequence"
    /\ rlast.raised
    /\ response.kind = "iter"
    /\ response.chunks /= <<>>

(***************************************************************************)
(* Properties of get_default_redirect.                                     *)
(***************************************************************************)
\* The rules of the endpoint of rule that precede it in build-priority
\* order, in that order.
RECURSIVE Before(_, _)
Before(s, x) ==
    IF s = <<>> \/ Head(s) = x THEN <<>> ELSE <<Head(s)>> \o Before(Tail(s), x)

PrecedingInBuildPriority(rule) ==
    Before(SortByKey(_rules_by_endpoint[Rules[rule].endpoint], BuildKeys),
           rule)

\* The places, among those rules, of the ones that provide defaults for the
\* rule and are suitable for the values and the method.
Qualifying(rule, values, method) ==
    {i \in DOMAIN PrecedingInBuildPriority(rule) :
        /\ provides_defaults_for(PrecedingInBuildPriority(rule)[i], rule)
        /\ suitable_for(PrecedingInBuildPriority(rule)[i], values, method)}

DefaultRedirectChoice ==
    last.op = "get_default_redirect" =>
        LET prec == PrecedingInBuildPriority(last.rule)
            qual == Qualifying(last.rule, last.values, last.method)
        IN  IF qual = {}
            THEN /\ last.returned.rv = NoneResult
                 /\ DictEq(last.returned.values, last.values)
            ELSE LET r == prec[CHOOSE i \in qual : \A j \in qual : i <= j]
                 IN  /\ last.returned.rv.kind = "redirect"
                     /\ last.returned.rv.rule = r
                     /\ last.returned.rv.path = Rules[r].url
                     /\ DictEq(last.returned.values,
                               DictUpdate(last.values, Rules[r].defaults))

\* C24: get_default_redirect examines only the rules of the given rule's
\* endpoint that precede the given rule in build-priority order, never the
\* rule itself or a later one; it builds the redirect URL from the first of
\* them that provides defaults for the given rule and is suitable for the
\* values and the method, after merging that rule's defaults into values;
\* when no preceding rule qualifies it returns nothing and leaves values
\* unchanged.
C24_DefaultRedirect == DefaultRedirectChoice

\* The same statement for maps on which no Map.add call has raised.
DefaultRedirectAfterSuccessfulAdds == ~add_raised => DefaultRedirectChoice

\* A redirect was built from the rule with defaults.
DefaultRedirectBuilt ==
    /\ last.op = "get_default_redirect"
    /\ last.returned.rv.kind = "redirect"

(***************************************************************************)
(* Properties of get_wsgi_headers as a reader.                             *)
(***************************************************************************)
\* The step is a call of get_wsgi_headers.
IsGetWsgiHeaders == rlast'.op = "get_wsgi_headers"

\* The call leaves the response's headers, status and body as they were.
GetWsgiHeadersFrame ==
    IsGetWsgiHeaders =>
        /\ headers' = headers
        /\ status_code' = status_code
        /\ response' = response

\* In the state the call leaves, a call with the same environment returns
\* what the call returned.
GetWsgiHeadersAgain ==
    rlast.op = "get_wsgi_headers" =>
        rlast.result = WsgiHeaders(headers, status_code, response,
                                   automatically_set_content_length,
                                   autocorrect_location_header,
                                   rlast.environ)

\* C25: get_wsgi_headers returns a new header set and leaves the response
\* itself unchanged: for every status code and environment the response's
\* own headers, status and body are the same after the call as before, so
\* calling it twice with the same environment gives equal results.
C25_GetWsgiHeadersReadsOnly ==
    []GetWsgiHeadersAgain /\ [][GetWsgiHeadersFrame]_vars

\* C25's case: the call returned headers that differ from the response's
\* own, which are as they were given: a Location made absolute and a
\* Content-Length of "0" for status 204.
C25_Witness ==
    /\ rlast.op = "get_wsgi_headers"
    /\ status_code = 204
    /\ headers = <<<<"Location", "/p">>, ContentType, <<"Expires", "x">>>>
    /\ ValuesOf(rlast.result, "location") = {"http://h/p"}
    /\ ValuesOf(rlast.result, "content-length") = {"0"}
    /\ rlast.environ.REQUEST_METHOD = "HEAD"

(***************************************************************************)
(* Properties of a Map.add call that raises.                               *)
(***************************************************************************)
\* The last call was an add that raised.
AddFailed == last.op = "add" /\ last.raised

\* The last call read the tables of the map, after its update().
ReadTables ==
    last.op \in {"iter_rules", "is_endpoint_expecting", "build",
                 "allowed_methods"}

\* C26: a Map.add call that fails part-way, a rule of the factory being
\* bound already after earlier rules of the factory were added, leaves the
\* map with its rule collection unchanged or marked dirty, so that a
\* following build or match never reads a rule list that holds the newly
\* added rules unsorted.
C26_FailedAddLeavesMapDirty ==
    /\ AddFailed => (last.added = <<>> \/ _remap)
    /\ ReadTables => TablesSorted

\* An add that raised at its first rule leaves the map as it was.
FailedAddAtFirstRule == AddFailed /\ last.added = <<>> /\ ~_remap

(***************************************************************************)
(* Properties of the two tables of the map together.                       *)
(***************************************************************************)
\* The places of rule r in the endpoint index: endpoint and position.
IndexPlaces(r) ==
    {<<e, i>> \in (DOMAIN _rules_by_endpoint) \X (1..(MaxRules + 1)) :
        i <= Len(_rules_by_endpoint[e]) /\ _rules_by_endpoint[e][i] = r}

\* Every rule of the rule list is in the index exactly once, under its own
\* endpoint, and every rule of the index is in the rule list.
IndexHoldsTheRuleList ==
    /\ \A r \in Range(_rules) :
          /\ Cardinality(IndexPlaces(r)) = 1
          /\ \A p \in IndexPlaces(r) : p[1] = Rules[r].endpoint
    /\ \A e \in DOMAIN _rules_by_endpoint :
          Range(_rules_by_endpoint[e]) \subseteq Range(_rules)
    /\ IsInjective(_rules)

\* A step that is no add, an update on its own or at the head of a reader,
\* keeps the members of both tables.
OnlyAddChangesMembership ==
    rule_map' = rule_map =>
        /\ Len(_rules') = Len(_rules)
        /\ Range(_rules') = Range(_rules)
        /\ DOMAIN _rules_by_endpoint' = DOMAIN _rules_by_endpoint
        /\ \A e \in DOMAIN _rules_by_endpoint :
              /\ Len(_rules_by_endpoint'[e]) = Len(_rules_by_endpoint[e])
              /\ Range(_rules_by_endpoint'[e]) = Range(_rules_by_endpoint[e])

\* C27: after any sequence of Map.add and Map.update calls the endpoint
\* index and the rule list hold the same rules: every rule of the rule list
\* is in the index exactly once, under its own endpoint and under no other,
\* and every rule of the index is in the rule list; update changes the
\* order of the lists only, never their membership.
C27_IndexAndRuleListAgree ==
    []IndexHoldsTheRuleList /\ [][OnlyAddChangesMembership]_vars

\* C27's case: four rules of two endpoints after an update that sorted
\* them: rules 1 and 3 stand in one order in the rule list and in the
\* other in the list of their endpoint, to both of which add appended them
\* in the same order.
C27_Witness ==
    /\ last.op = "update"
    /\ Range(_rules) = {1, 2, 3, 4}
    /\ _rules[1] = 2 /\ _rules[4] = 3
    /\ DOMAIN _rules_by_endpoint = {"e1", "e2"}
    /\ _rules_by_endpoint["e1"] = <<2, 3, 1>>
    /\ _rules_by_endpoint["e2"] = <<4>>

(***************************************************************************)
(* Properties of make_sequence on a buffered body.                         *)
(***************************************************************************)
\* How many times the close of the original body is among the on-close
\* callbacks.
BodyCloseRegistered ==
    Cardinality({i \in 1..Len(_on_close) : _on_close[i] = "body_close"})

\* A make_sequence on a buffered body changes neither the body nor the
\* on-close callbacks; an _ensure_sequence on a buffered body leaves the
\* chunks and the on-close callbacks alone.
BufferedBodyStays ==
    is_sequence(response) =>
        /\ rlast'.op = "make_sequence" =>
              (response' = response /\ _on_close' = _on_close)
        /\ rlast'.op = "_ensure_sequence" =>
              (response'.chunks = response.chunks /\ _on_close' = _on_close)

\* C28: make_sequence is idempotent: a second and any later call, on a
\* response whose body is buffered already, changes neither the body nor
\* the list of on-close callbacks, so the close of the original body is
\* registered as an on-close callback at most once however many times
\* make_sequence or _ensure_sequence is called.
C28_MakeSequenceIdempotent ==
    [](BodyCloseRegistered <= 1) /\ [][BufferedBodyStays]_vars

\* C28's case: make_sequence was called on a body that an earlier call had
\* buffered, registering the close of the original iterator.
C28_Witness ==
    /\ rlast.op = "make_sequence"
    /\ is_sequence(rlast.before)
    /\ orig_body.kind = "iter" /\ orig_body.has_close
    /\ BodyCloseRegistered = 1
    /\ response = rlast.before

====
